---- MODULE Spec2Model ----
(***************************************************************************)
(* Model of the Slack feedback bot: the ApprovalHandler store              *)
(* (src/src/approval-handler.js) and the InteractiveServer handlers        *)
(* (src/src/interactive-server.js) that run as background tasks on one     *)
(* Node.js event loop.  A handler runs atomically between two awaits; an   *)
(* await is a point where any other task may run.                          *)
(***************************************************************************)
EXTENDS Integers, Sequences, FiniteSets, TLC

(***************************************************************************)
(* Bounds of the model                                                     *)
(***************************************************************************)
MaxTicks == 1        \* how many times the clock advances
MaxEvents == 4       \* how many events (notifications, clicks, direct calls) arrive
MaxStoreOps == 3     \* how many store methods are called when the store is taken alone
MaxRequests == 3     \* how many requests reach the routes when the program runs from main()
MaxRestarts == 1     \* how many times the process is restarted
MaxWriteFailures == 1 \* how many writes of the snapshot fail

(***************************************************************************)
(* Program constants                                                       *)
(***************************************************************************)
DayMs == 86400000    \* 24 * 60 * 60 * 1000
SweepDays == 7       \* clearOldApprovals(7)
MinConfidence == 60  \* feedback.confidence >= 60

(***************************************************************************)
(* JavaScript values.  Every property value is a tagged record, so that    *)
(* undefined, strings and ISO date strings can be compared.               *)
(***************************************************************************)
Undefined == [undefined |-> TRUE]
Null == [null |-> TRUE]
Str(s) == [str |-> s]
\* new Date(ms).toISOString(): the ISO string of a millisecond instant
ToISOString(ms) == [iso |-> ms]
\* new Date(isoString).getTime()
GetTime(isoString) == isoString.iso

\* obj.f : a missing property reads as undefined
Prop(obj, f) == IF f \in DOMAIN obj THEN obj[f] ELSE Undefined

\* { ...a, ...b } : the properties of b override those of a
Spread(a, b) ==
    [f \in (DOMAIN a) \cup (DOMAIN b) |-> IF f \in DOMAIN b THEN b[f] ELSE a[f]]

NoProps == [f \in {} |-> Undefined]

(***************************************************************************)
(* Slack events of the model: message timestamps "sec.frac" and the user   *)
(* the event carries (event.user may be absent).                           *)
(***************************************************************************)
Ts == {<<111, 222>>, <<111, 333>>}
UserOf(ts) == IF ts = <<111, 222>> THEN Str("U1") ELSE Undefined
Titles == {"T1"}

\* `msg_${messageTs.replace('.', '_')}`
MessageIdOf(ts) == <<"msg", ts[1], "_", ts[2]>>
StaleKey == <<"msg", 999, "_", 0>>
Keys == {MessageIdOf(ts) : ts \in Ts} \cup {StaleKey}

(***************************************************************************)
(* A JavaScript Map is a sequence of <<key, value>> entries with distinct  *)
(* keys, in insertion order; a Set is a sequence of distinct members.      *)
(***************************************************************************)
MapHas(m, k) == \E i \in 1..Len(m) : m[i][1] = k
MapGet(m, k) ==
    IF MapHas(m, k) THEN m[CHOOSE i \in 1..Len(m) : m[i][1] = k][2] ELSE Undefined
\* Map.set keeps the position of an existing key and appends a new one
MapSet(m, k, v) ==
    IF MapHas(m, k)
    THEN [i \in 1..Len(m) |-> IF m[i][1] = k THEN <<k, v>> ELSE m[i]]
    ELSE Append(m, <<k, v>>)
MapDelete(m, k) == SelectSeq(m, LAMBDA e : e[1] # k)
MapKeys(m) == {m[i][1] : i \in 1..Len(m)}
MapValues(m) == [i \in 1..Len(m) |-> m[i][2]]

SetHas(s, x) == \E i \in 1..Len(s) : s[i] = x
SetAdd(s, x) == IF SetHas(s, x) THEN s ELSE Append(s, x)
SetMembers(s) == {s[i] : i \in 1..Len(s)}

(***************************************************************************)
(* JSON.stringify / JSON.parse of the snapshot.  stringify drops every     *)
(* property whose value is undefined; Map and Set go through arrays.       *)
(***************************************************************************)
JsonObject(o) == [f \in {g \in DOMAIN o : o[g] # Undefined} |-> o[f]]
JsonEntries(m) == [i \in 1..Len(m) |-> <<m[i][1], JsonObject(m[i][2])>>]

NoFile == [exists |-> FALSE]
Truncated == [exists |-> TRUE, valid |-> FALSE]

(***************************************************************************)
(* ApprovalHandler.  The store is the record                               *)
(*   [pa |-> pendingApprovals, pm |-> processedMessages, file |-> the      *)
(*    contents of dataFile, lastWrite |-> outcome of the last write,       *)
(*    failures |-> number of failed writes so far].                        *)
(* Every method takes the store and returns the store it leaves.  A write  *)
(* of the snapshot has an outcome w: "ok", "error" (writeFileSync throws   *)
(* before the file is touched) or "truncated" (it throws after the file    *)
(* was opened for writing, which empties it).                              *)
(***************************************************************************)
WriteOutcomes == {"ok", "error", "truncated"}

\* saveData(): lines 111-128; the catch swallows a failed write
saveData(S, t, w) ==
    LET data == [exists |-> TRUE, valid |-> TRUE,
                 pendingApprovals |-> JsonEntries(S.pa),
                 processedMessages |-> S.pm,
                 lastSaved |-> ToISOString(t)]
    IN [S EXCEPT !.file = CASE w = "ok" -> data
                            [] w = "error" -> S.file
                            [] OTHER -> Truncated,
                 !.lastWrite = w,
                 !.failures = @ + (IF w = "ok" THEN 0 ELSE 1)]

RECURSIVE NewMap(_)
\* new Map(entries)
NewMap(entries) ==
    IF entries = <<>> THEN <<>>
    ELSE LET n == Len(entries)
         IN MapSet(NewMap(SubSeq(entries, 1, n - 1)), entries[n][1], entries[n][2])

RECURSIVE NewSet(_)
\* new Set(array)
NewSet(array) ==
    IF array = <<>> THEN <<>>
    ELSE LET n == Len(array) IN SetAdd(NewSet(SubSeq(array, 1, n - 1)), array[n])

\* faulty variant: the processed messages of the snapshot are not loaded
loadData_DropProcessed(file, failures) ==
    IF file.exists /\ file.valid
    THEN [pa |-> NewMap(file.pendingApprovals), pm |-> <<>>,
          file |-> file, lastWrite |-> "none", failures |-> failures]
    ELSE [pa |-> <<>>, pm |-> <<>>, file |-> file, lastWrite |-> "none",
          failures |-> failures]

\* constructor + loadData(): lines 9-14, 133-143; a missing or unparsable file
\* leaves the empty Map and Set of the constructor
loadData(file, failures) ==
    IF file.exists /\ file.valid
    THEN [pa |-> NewMap(file.pendingApprovals), pm |-> NewSet(file.processedMessages),
          file |-> file, lastWrite |-> "none", failures |-> failures]
    ELSE [pa |-> <<>>, pm |-> <<>>, file |-> file, lastWrite |-> "none",
          failures |-> failures]

\* faulty variant: the candidate is stored without its state
addPendingApproval_NoStatus(S, messageId, feedback, t, w) ==
    LET rec == Spread(feedback, [createdAt |-> ToISOString(t)])
    IN saveData([S EXCEPT !.pa = MapSet(S.pa, messageId, rec)], t, w)

\* addPendingApproval(messageId, feedback): lines 19-26
addPendingApproval(S, messageId, feedback, t, w) ==
    LET rec == Spread(feedback, [createdAt |-> ToISOString(t), status |-> Str("pending")])
    IN saveData([S EXCEPT !.pa = MapSet(S.pa, messageId, rec)], t, w)

\* getPendingApproval(messageId): lines 31-33
getPendingApproval(S, messageId) == MapGet(S.pa, messageId)

\* faulty variant: the message is saved but never added to the set
markAsProcessed_NoAdd(S, messageTs, t, w) == saveData(S, t, w)

\* markAsProcessed(messageTs): lines 38-41
markAsProcessed(S, messageTs, t, w) ==
    saveData([S EXCEPT !.pm = SetAdd(S.pm, messageTs)], t, w)

\* isProcessed(messageTs): lines 46-48
isProcessed(S, messageTs) == SetHas(S.pm, messageTs)

\* faulty variant: the updates are spread after the status
approvedFeedback_UpdatesLast(S, messageId, updates, t) ==
    IF ~MapHas(S.pa, messageId) THEN Null
    ELSE Spread(Spread(MapGet(S.pa, messageId),
                       [status |-> Str("approved"), approvedAt |-> ToISOString(t)]),
                updates)

\* the value approveFeedback returns: null on a miss, otherwise
\* { ...approval, ...updates, status: 'approved', approvedAt }
approvedFeedback(S, messageId, updates, t) ==
    IF ~MapHas(S.pa, messageId) THEN Null
    ELSE Spread(Spread(MapGet(S.pa, messageId), updates),
                [status |-> Str("approved"), approvedAt |-> ToISOString(t)])

\* faulty variant: a missing key is inserted instead of being refused
approveFeedback_Upsert(S, messageId, updates, t, w) ==
    saveData([S EXCEPT !.pa = MapSet(S.pa, messageId,
                                     [status |-> Str("approved"),
                                      approvedAt |-> ToISOString(t)])], t, w)

\* approveFeedback(messageId, updates): lines 53-69
approveFeedback(S, messageId, updates, t, w) ==
    IF ~MapHas(S.pa, messageId) THEN S
    ELSE saveData([S EXCEPT !.pa =
                      MapSet(S.pa, messageId, approvedFeedback(S, messageId, updates, t))],
                  t, w)

\* faulty variant: the candidate is marked rejected without the rejectedAt stamp
rejectedFeedback_NoStamp(S, messageId, t) ==
    IF ~MapHas(S.pa, messageId) THEN Null
    ELSE Spread(MapGet(S.pa, messageId), [status |-> Str("rejected")])

\* the value rejectFeedback returns
rejectedFeedback(S, messageId, t) ==
    IF ~MapHas(S.pa, messageId) THEN Null
    ELSE Spread(MapGet(S.pa, messageId),
                [status |-> Str("rejected"), rejectedAt |-> ToISOString(t)])

\* faulty variant: the map is rebuilt with the rejected candidate alone
rejectFeedback_Reset(S, messageId, t, w) ==
    IF ~MapHas(S.pa, messageId) THEN S
    ELSE saveData([S EXCEPT !.pa = <<<<messageId, rejectedFeedback(S, messageId, t)>>>>],
                  t, w)

\* rejectFeedback(messageId): lines 74-89
rejectFeedback(S, messageId, t, w) ==
    IF ~MapHas(S.pa, messageId) THEN S
    ELSE saveData([S EXCEPT !.pa = MapSet(S.pa, messageId, rejectedFeedback(S, messageId, t))],
                  t, w)

\* getApprovedFeedbacks(): lines 94-98
getApprovedFeedbacks(S) ==
    SelectSeq(MapValues(S.pa), LAMBDA a : Prop(a, "status") = Str("approved"))

\* faulty variant: the whole map is cleared instead of one key being deleted
removePendingApproval_Clear(S, messageId, t, w) ==
    saveData([S EXCEPT !.pa = <<>>], t, w)

\* faulty variant: the key is deleted but the snapshot is not written
removePendingApproval_NoSave(S, messageId, t, w) ==
    [S EXCEPT !.pa = MapDelete(S.pa, messageId)]

\* removePendingApproval(messageId): lines 103-106
removePendingApproval(S, messageId, t, w) ==
    saveData([S EXCEPT !.pa = MapDelete(S.pa, messageId)], t, w)

\* faulty variant: a candidate created exactly at the cutoff is deleted too
IsOld_Inclusive(value, days, t) == GetTime(value.createdAt) <= t - days * DayMs

\* the loop of clearOldApprovals: deletes every entry created before the cutoff
IsOld(value, days, t) == GetTime(value.createdAt) < t - days * DayMs
SweptMap(pa, days, t) == SelectSeq(pa, LAMBDA e : ~IsOld(e[2], days, t))

\* faulty variant: the cleanup also empties the set of processed messages
clearOldApprovals_DropProcessed(S, days, t, w) ==
    LET after == SweptMap(S.pa, days, t)
    IN IF Len(S.pa) # Len(after)
       THEN saveData([S EXCEPT !.pa = after, !.pm = <<>>], t, w) ELSE S

\* clearOldApprovals(days): lines 166-182; saves only when something was deleted
clearOldApprovals(S, days, t, w) ==
    LET after == SweptMap(S.pa, days, t)
    IN IF Len(S.pa) # Len(after) THEN saveData([S EXCEPT !.pa = after], t, w) ELSE S

\* clearOldApprovals has no return statement: the call evaluates to undefined
clearOldApprovalsResult(S, days, t) == Undefined

\* getStats(): lines 148-161
CountStatus(S, st) ==
    Cardinality({i \in 1..Len(S.pa) : Prop(S.pa[i][2], "status") = Str(st)})
getStats(S) ==
    [pending |-> CountStatus(S, "pending"), approved |-> CountStatus(S, "approved"),
     rejected |-> CountStatus(S, "rejected"), processed |-> Len(S.pm)]

VARIABLES
    pendingApprovals,    \* ApprovalHandler.pendingApprovals (Map)
    processedMessages,   \* ApprovalHandler.processedMessages (Set)
    dataFile,            \* contents of data/approvals.json
    lastWrite,           \* outcome of the last write of the snapshot ("none" after a load)
    writeFailures,       \* number of failed writes so far
    now,                 \* Date.now(), in ms
    ticks,               \* number of clock advances so far
    ingest,              \* the running processFeedbackMessage tasks
    click,               \* the running handleBlockActions tasks
    deliveries,          \* per message ts: processFeedbackMessage invocations
    extractorCalls,      \* per message ts: Extractor calls made
    promptsPosted,       \* per message ts: approval prompts posted to Slack
    resolved,            \* per key: approve/reject clicks that found the candidate
    createCalls,         \* per key: NotionClient.createTask calls made
    tasksCreated,        \* per key: createTask calls that succeeded
    lastMiss,            \* key of the last approve/reject/click that found no candidate
    cleared,             \* candidates the cleanup has logged as cleared, in total
    restarts,            \* number of process restarts so far
    events,              \* number of events that have arrived so far
    extractorFailures,   \* per message ts: Extractor calls that failed
    permalinks,          \* per message ts: the permalink processFeedbackMessage got (null: none)
    feedbackChannelId,   \* InteractiveServer.feedbackChannelId (cache of the lookup)
    eventsLog,           \* per /slack/events request: what the route did, in order
    interactionsLog,     \* per /slack/interactions request: what the route did, in order
    proc,                \* where main() is: starting, initializing, serving, exited
    approvalChannelId,   \* SlackClient.approvalChannelId
    blockActions,        \* per handleBlockActions call: the actions of the payload, the handlers run
    isRunning,           \* FeedbackBot.isRunning
    cycle                \* the running processNewMessages calls

storeVars == <<pendingApprovals, processedMessages, dataFile, lastWrite, writeFailures>>
worldVars == <<deliveries, extractorCalls, promptsPosted, resolved, createCalls,
               tasksCreated, extractorFailures, permalinks>>
gatewayVars == <<feedbackChannelId, eventsLog, interactionsLog, blockActions>>
bootVars == <<proc, approvalChannelId>>
pollVars == <<isRunning, cycle>>
\* what the handlers of an event and the store's methods leave alone
extVars == <<gatewayVars, bootVars, pollVars>>
vars == <<pendingApprovals, processedMessages, dataFile, lastWrite, writeFailures,
          now, ticks, ingest, click, deliveries, extractorCalls, promptsPosted,
          resolved, createCalls, tasksCreated, lastMiss, cleared, restarts, events,
          extractorFailures, permalinks, feedbackChannelId, eventsLog, interactionsLog,
          blockActions, proc, approvalChannelId, isRunning, cycle>>

IngestTasks == 1..2
ClickTasks == 1..2
CycleTasks == 1..2
\* the channel the approval prompts go to, and the channel named 'feedback'
ApprovalChannel == Str("C_APPROVAL")
FeedbackChannel == Str("C_FEEDBACK")
OtherChannel == Str("C_OTHER")
Idle == [pc |-> "idle"]
\* no handleBlockActions call on the slot
NoActions == [actions |-> <<>>, left |-> <<>>, handlers |-> <<>>]
\* no processNewMessages call on the slot; exit tells how the last one ended
CycleIdle(exit) == [pc |-> "idle", exit |-> exit]
NoKey == <<"none">>

\* the ApprovalHandler object as the methods see it
Store == [pa |-> pendingApprovals, pm |-> processedMessages, file |-> dataFile,
          lastWrite |-> lastWrite, failures |-> writeFailures]

Commit(S) ==
    /\ pendingApprovals' = S.pa
    /\ processedMessages' = S.pm
    /\ dataFile' = S.file
    /\ lastWrite' = S.lastWrite
    /\ writeFailures' = S.failures

\* the outcomes a write may have in the current state
Writes == {w \in WriteOutcomes : w # "ok" => writeFailures < MaxWriteFailures}

AllIdle == (\A i \in IngestTasks : ingest[i].pc = "idle")
           /\ (\A c \in ClickTasks : click[c].pc = "idle")

\* an event arrives
Arrive == events < MaxEvents /\ events' = events + 1
\* a request reaches a route when the program runs from main()
Request == events < MaxRequests
\* a store method is called when the store is taken alone
StoreOp == events < MaxStoreOps

\* the state after the constructors of FeedbackBot (src/QUICKSTART.md lines 163-175)
\* have run on a fresh data directory, main() not yet started
Constructed ==
    /\ pendingApprovals = loadData(NoFile, 0).pa
    /\ processedMessages = loadData(NoFile, 0).pm
    /\ dataFile = NoFile
    /\ lastWrite = "none"
    /\ writeFailures = 0
    /\ now = 0
    /\ ticks = 0
    /\ ingest = [i \in IngestTasks |-> Idle]
    /\ click = [c \in ClickTasks |-> Idle]
    /\ deliveries = [ts \in Ts |-> 0]
    /\ extractorCalls = [ts \in Ts |-> 0]
    /\ promptsPosted = [ts \in Ts |-> 0]
    /\ resolved = [k \in Keys |-> 0]
    /\ createCalls = [k \in Keys |-> 0]
    /\ tasksCreated = [k \in Keys |-> 0]
    /\ lastMiss = NoKey
    /\ cleared = 0
    /\ restarts = 0
    /\ events = 0
    /\ extractorFailures = [ts \in Ts |-> 0]
    /\ permalinks = [ts \in Ts |-> Null]
    /\ feedbackChannelId = Null
    /\ eventsLog = [i \in IngestTasks |-> <<>>]
    /\ interactionsLog = [c \in ClickTasks |-> <<>>]
    /\ blockActions = [c \in ClickTasks |-> NoActions]
    /\ isRunning = FALSE
    /\ cycle = [j \in CycleTasks |-> CycleIdle("none")]

\* the program is serving, its approval channel resolved
Init ==
    /\ Constructed
    /\ proc = "serving"
    /\ approvalChannelId = ApprovalChannel

(***************************************************************************)
(* The text of an event: interactive-server.js lines 513-534.  A string is *)
(* a sequence of characters; a property of the event may be absent.        *)
(***************************************************************************)
MaxAttachments == 2  \* how many attachments an event carries at most

\* a JavaScript value taken as a condition: undefined, null and '' are falsy
Truthy(v) == v # Undefined /\ v # Null /\ v # Str(<<>>)
\* v || '' as a sequence of characters
OrEmpty(v) == IF Truthy(v) THEN v.str ELSE <<>>

EventTexts == {Undefined, Str(<<>>), Str(<<" ">>), Str(<<"a">>)}
\* the attachments of the model; title and fallback vary where they are read
Attachments ==
    {a \in [text : {Undefined, Str(<<" ">>), Str(<<"b">>)}, title : {Undefined, Str(<<"t">>)},
            fallback : {Undefined, Str(<<"f">>)}] :
        a.text # Undefined => (a.title = Undefined /\ a.fallback = Undefined)}
\* an array, tagged as every other value is
Arr(elements) == [arr |-> elements]
AttachmentLists ==
    {Undefined} \cup {Arr(l) : l \in UNION {[1..n -> Attachments] : n \in 0..MaxAttachments}}
TextEvents == [ts : Ts, text : EventTexts, attachments : AttachmentLists]

\* lines 519-525: what one attachment adds to the text, in priority order
AttachmentText(attachment) ==
    IF Truthy(attachment.text) THEN <<"\n">> \o attachment.text.str
    ELSE IF Truthy(attachment.title) THEN <<"\n">> \o attachment.title.str
    ELSE IF Truthy(attachment.fallback) THEN <<"\n">> \o attachment.fallback.str
    ELSE <<>>

RECURSIVE AppendAttachments(_, _)
AppendAttachments(text, attachments) ==
    IF attachments = <<>> THEN text
    ELSE AppendAttachments(text \o AttachmentText(Head(attachments)), Tail(attachments))

\* lines 513-528: event.text followed by the text of each attachment
messageText(event) ==
    IF Truthy(event.attachments) /\ Len(event.attachments.arr) > 0
    THEN AppendAttachments(OrEmpty(event.text), event.attachments.arr)
    ELSE OrEmpty(event.text)

WhiteSpace == {" ", "\n"}
RECURSIVE TrimStart(_)
TrimStart(text) ==
    IF text # <<>> /\ Head(text) \in WhiteSpace THEN TrimStart(Tail(text)) ELSE text
RECURSIVE TrimEnd(_)
TrimEnd(text) ==
    IF text # <<>> /\ text[Len(text)] \in WhiteSpace
    THEN TrimEnd(SubSeq(text, 1, Len(text) - 1)) ELSE text
\* String.prototype.trim
Trim(text) == TrimEnd(TrimStart(text))

\* faulty variant: a text of white space only counts as content
NoTextContent_NoTrim(text) == text = <<>>
\* line 531: !messageText || messageText.trim().length === 0
NoTextContent(text) == text = <<>> \/ Len(Trim(text)) = 0

(***************************************************************************)
(* processFeedbackMessage(event): interactive-server.js lines 498-646      *)
(***************************************************************************)
\* lines 499-549: dedup check, text check, the Extractor call is made; the task
\* ends at once when the message is already processed or has no text
StartIngest(i, ts, emptyText) ==
    /\ deliveries' = [deliveries EXCEPT ![ts] = @ + 1]
    /\ IF isProcessed(Store, ts) \/ emptyText
       THEN /\ ingest' = [ingest EXCEPT ![i] = Idle]
            /\ UNCHANGED extractorCalls
       ELSE /\ ingest' = [ingest EXCEPT ![i] = [pc |-> "analyzing", ts |-> ts]]
            /\ extractorCalls' = [extractorCalls EXCEPT ![ts] = @ + 1]
    /\ UNCHANGED <<storeVars, now, ticks, click, promptsPosted, resolved, createCalls,
                   tasksCreated, extractorFailures, permalinks, lastMiss, restarts, cleared>>

\* processFeedbackMessage(event) is called for a message that passed the filter
IngestBegin(i, ts, emptyText) ==
    /\ Arrive
    /\ ingest[i].pc = "idle"
    /\ StartIngest(i, ts, emptyText)

\* processFeedbackMessage(event), the text check made on the text of the event
IngestEvent(i, event) == IngestBegin(i, event.ts, NoTextContent(messageText(event)))

\* the item analyzeBatch returns for a positive judgment (part_000 lines 81-109)
FeedbackItem(ts, title) ==
    [title |-> Str(title), description |-> Str(<<"D">>), priority |-> Str("High Priority"),
     type |-> Str("bug"), userId |-> UserOf(ts)]

\* line 615: item.description = `Task requested by ${reporterName}\n\n${item.description}`
WithReporter(item, reporterName) ==
    [item EXCEPT !.description = Str(<<"Task requested by ", reporterName, "\n\n">> \o @.str)]

\* lines 612-624: the reporter is prepended to the description, the candidate is
\* registered, the permalink is asked for
Register(i, ts, item, reporterName, w) ==
    LET named == WithReporter(item, reporterName)
    IN /\ Commit(addPendingApproval(Store, MessageIdOf(ts), named, now, w))
       /\ ingest' = [ingest EXCEPT ![i] = [pc |-> "permalink", ts |-> ts, item |-> named]]

\* what a call of analyzeFeedback ends with (part_000 lines 44-93): the model's
\* judgment is feedback, or it is not, or the call or the parse of its answer throws
AnalyzeResults == {"feedback", "notFeedback", "error"}

\* a JSON number
Num(n) == [num |-> n]

\* what the model call of analyzeFeedback ends with: messages.create throws, or
\* the text of the reply is not the JSON of an object, or it is the JSON of a
\* judgment (whose confidence may be missing)
ApiError == [thrown |-> "messages.create"]
Malformed == [text |-> "not JSON"]
Confidences == {Num(0), Num(59), Num(60), Num(61), Num(100), Undefined}
Judgments == [isFeedback : BOOLEAN, confidence : Confidences]
Replies == {ApiError, Malformed} \cup Judgments

\* feedback.confidence >= 60: false when the confidence is missing
AtLeast(confidence, n) == confidence # Undefined /\ confidence.num >= n

\* faulty variant: a reply that does not parse is taken for feedback
analyzeFeedback_FailOpen(reply) ==
    IF reply = ApiError THEN "error"
    ELSE IF reply = Malformed THEN "feedback"
    ELSE IF reply.isFeedback /\ AtLeast(reply.confidence, MinConfidence) THEN "feedback"
    ELSE "notFeedback"

\* faulty variant: a confidence of exactly 60 is rejected
analyzeFeedback_Above(reply) ==
    IF reply \in {ApiError, Malformed} THEN "error"
    ELSE IF reply.isFeedback /\ AtLeast(reply.confidence, MinConfidence + 1) THEN "feedback"
    ELSE "notFeedback"

\* analyzeFeedback(message, sourceName) (part_000 lines 44-93): the call and the
\* parse are in one try whose catch returns null; a parsed judgment is returned
\* when isFeedback is true and the confidence is at least 60, otherwise null
analyzeFeedback(reply) ==
    IF reply \in {ApiError, Malformed} THEN "error"
    ELSE IF reply.isFeedback /\ AtLeast(reply.confidence, MinConfidence) THEN "feedback"
    ELSE "notFeedback"

\* faulty variant: an item is returned whatever analyzeFeedback returned
analyzeBatch_Always(ts, result, title) == <<FeedbackItem(ts, title)>>

\* analyzeBatch([message]) (part_000 lines 98-117): the array it returns; an error
\* is caught in analyzeFeedback (lines 89-92), which then returns null like a
\* negative judgment
analyzeBatch(ts, result, title) ==
    IF result = "feedback" THEN <<FeedbackItem(ts, title)>> ELSE <<>>

\* lines 549-558, 636-641: analyzeBatch has returned for the message ts; an empty
\* array marks the message processed
FeedbackReturned(i, ts, result, title, w) ==
    /\ LET feedbackArray == analyzeBatch(ts, result, title)
       IN /\ extractorFailures' = [extractorFailures EXCEPT
                                      ![ts] = @ + (IF result = "error" THEN 1 ELSE 0)]
          /\ IF Len(feedbackArray) = 0
             THEN /\ Commit(markAsProcessed(Store, ts, now, w))
                  /\ ingest' = [ingest EXCEPT ![i] = Idle]
             ELSE IF UserOf(ts) # Undefined
             THEN /\ ingest' = [ingest EXCEPT ![i] =
                                   [pc |-> "userinfo", ts |-> ts, item |-> feedbackArray[1]]]
                  /\ UNCHANGED storeVars
             ELSE Register(i, ts, feedbackArray[1], "Unknown", w)
    /\ UNCHANGED <<now, ticks, click, deliveries, extractorCalls, promptsPosted, resolved,
                   createCalls, tasksCreated, permalinks, lastMiss, restarts, cleared, events>>

\* lines 549-558, 636-641: the Extractor returns
AnalyzeReturn(i, result, title, w) ==
    /\ ingest[i].pc = "analyzing"
    /\ FeedbackReturned(i, ingest[i].ts, result, title, w)

\* part_000 lines 46-112: messages.create ends with the given reply,
\* analyzeFeedback returns its judgment to analyzeBatch, which pauses for 100 ms
ReplyArrives(i, reply) ==
    /\ ingest[i].pc = "analyzing"
    /\ ingest' = [ingest EXCEPT ![i] = [pc |-> "judged", ts |-> ingest[i].ts, reply |-> reply,
                                        result |-> analyzeFeedback(reply)]]
    /\ UNCHANGED <<storeVars, now, ticks, click, worldVars, lastMiss, restarts, cleared, events>>

\* part_000 line 116 and interactive-server.js lines 549-558, 636-641: the pause
\* is over and analyzeBatch returns
BatchReturn(i, title, w) ==
    /\ ingest[i].pc = "judged"
    /\ FeedbackReturned(i, ingest[i].ts, ingest[i].result, title, w)

\* lines 561-624: getUserInfo returns the user, whose name is taken, or returns
\* null or throws, which leaves the name 'Unknown'
UserInfoReturn(i, named, w) ==
    /\ ingest[i].pc = "userinfo"
    /\ Register(i, ingest[i].ts, ingest[i].item, IF named THEN "R1" ELSE "Unknown", w)
    /\ UNCHANGED <<now, ticks, click, worldVars, lastMiss, restarts, cleared, events>>

\* what chat.getPermalink gives for a message
PermalinkOf(ts) == Str(<<"https://slack.com/archives/p", ts[1], ts[2]>>)

\* lines 626-628: if (permalink) item.messageLink = permalink
WithLink(item, permalink) ==
    IF permalink = Null THEN item ELSE Spread(item, [messageLink |-> permalink])

\* faulty variant: a permalink that cannot be resolved ends the task
AfterPermalink_Abort(ts, item, permalink) ==
    IF permalink = Null THEN Idle
    ELSE [pc |-> "sending", ts |-> ts, item |-> WithLink(item, permalink)]
\* lines 621-631: with or without a permalink, sendApprovalMessage is called next
AfterPermalink(ts, item, permalink) ==
    [pc |-> "sending", ts |-> ts, item |-> WithLink(item, permalink)]

\* lines 621-631: getMessagePermalink returns the permalink, or null when the call
\* failed (part_001 lines 231-242); it is set on the item and sendApprovalMessage
\* is called with the item
PermalinkReturn(i, found) ==
    /\ ingest[i].pc = "permalink"
    /\ LET ts == ingest[i].ts
           permalink == IF found THEN PermalinkOf(ts) ELSE Null
       IN /\ ingest' = [ingest EXCEPT ![i] = AfterPermalink(ts, ingest[i].item, permalink)]
          /\ permalinks' = [permalinks EXCEPT ![ts] = permalink]
    /\ UNCHANGED <<storeVars, now, ticks, click, deliveries, extractorCalls, promptsPosted,
                   resolved, createCalls, tasksCreated, extractorFailures, lastMiss, restarts,
                   cleared, events>>

\* lines 631-641: sendApprovalMessage returns (null when the prompt was not posted)
SendReturn(i, posted, w) ==
    /\ ingest[i].pc = "sending"
    /\ LET ts == ingest[i].ts
       IN /\ promptsPosted' = [promptsPosted EXCEPT ![ts] = @ + (IF posted THEN 1 ELSE 0)]
          /\ Commit(markAsProcessed(Store, ts, now, w))
    /\ ingest' = [ingest EXCEPT ![i] = Idle]
    /\ UNCHANGED <<now, ticks, click, deliveries, extractorCalls, extractorFailures, permalinks,
                   resolved, createCalls, tasksCreated, lastMiss, restarts, cleared, events>>

(***************************************************************************)
(* handleBlockActions(actions, ...): interactive-server.js lines 126-150,  *)
(* for a payload of one action                                             *)
(***************************************************************************)
ActionKinds == {"approve", "reject", "review"}

\* v || null
OrNull(v) == IF v = Undefined THEN Null ELSE v

\* faulty variant: the task is given no title
taskData_Untitled(approved) ==
    [title |-> Undefined,
     description |-> Prop(approved, "description"),
     priority |-> Prop(approved, "priority"),
     type |-> Prop(approved, "type"),
     messageLink |-> OrNull(Prop(approved, "messageLink")),
     dueDate |-> OrNull(Prop(approved, "dueDate"))]

\* handleApproval lines 168-175: the object passed to createTask
taskData(approved) ==
    [title |-> Prop(approved, "title"),
     description |-> Prop(approved, "description"),
     priority |-> Prop(approved, "priority"),
     type |-> Prop(approved, "type"),
     messageLink |-> OrNull(Prop(approved, "messageLink")),
     dueDate |-> OrNull(Prop(approved, "dueDate"))]

\* handleApproval lines 152-179: guard, approveFeedback, the createTask call is made
ApproveClick(c, k, w) ==
    /\ Arrive
    /\ click[c].pc = "idle"
    /\ IF getPendingApproval(Store, k) = Undefined
       THEN /\ lastMiss' = k
            /\ UNCHANGED <<storeVars, click, resolved, createCalls>>
       ELSE /\ Commit(approveFeedback(Store, k, NoProps, now, w))
            /\ click' = [click EXCEPT ![c] =
                            [pc |-> "creating", key |-> k,
                             taskData |-> approvedFeedback(Store, k, NoProps, now),
                             payload |-> taskData(approvedFeedback(Store, k, NoProps, now))]]
            /\ resolved' = [resolved EXCEPT ![k] = @ + 1]
            /\ createCalls' = [createCalls EXCEPT ![k] = @ + 1]
            /\ UNCHANGED lastMiss
    /\ UNCHANGED <<now, ticks, ingest, deliveries, extractorCalls, extractorFailures, permalinks,
                   promptsPosted,
                   tasksCreated, restarts, cleared>>

\* faulty variant: the candidate is removed whether or not the task was created
afterCreateTask_AlwaysRemove(S, k, created, t, w) == removePendingApproval(S, k, t, w)

\* handleApproval lines 180-184 and 262-280: the store after createTask returned a
\* page (created) or threw
afterCreateTask(S, k, created, t, w) ==
    IF created THEN removePendingApproval(S, k, t, w) ELSE S

\* the id of the n-th page Notion creates for the candidate of key k
PageId(k, n) == <<"page", k, n>>

\* lines 191-259: the confirmation, with the button that assigns the created page
CreatedMessage(payload, pageId) ==
    [text |-> "Task created", title |-> payload.title,
     action_id |-> <<"assign_john_", pageId>>, value |-> pageId]
\* lines 266-278
FailedMessage == [text |-> "Approved but failed to create Notion task. Check logs."]

\* faulty variant: the confirmation is sent whether or not the task was created
approvalMessage_AlwaysCreated(created, payload, pageId) == CreatedMessage(payload, pageId)

\* handleApproval lines 186-279: what is sent to the response URL after
\* createTask returned a page (created) or threw
approvalMessage(created, payload, pageId) ==
    IF created THEN CreatedMessage(payload, pageId) ELSE FailedMessage

\* handleApproval lines 179-280: createTask returns a page or throws
CreateReturn(c, created, w) ==
    /\ click[c].pc = "creating"
    /\ LET k == click[c].key
       IN /\ tasksCreated' = [tasksCreated EXCEPT ![k] = @ + (IF created THEN 1 ELSE 0)]
          /\ Commit(afterCreateTask(Store, k, created, now, w))
          /\ click' = [click EXCEPT ![c] =
                          [pc |-> "notifying", key |-> k,
                           notice |-> IF created THEN "created" ELSE "failed",
                           message |-> approvalMessage(created, click[c].payload,
                                                       PageId(k, tasksCreated[k] + 1))]]
    /\ UNCHANGED <<now, ticks, ingest, deliveries, extractorCalls, extractorFailures, permalinks,
                   promptsPosted,
                   resolved, createCalls, lastMiss, restarts, cleared, events>>

\* handleRejection lines 283-310: guard, rejectFeedback, the confirmation is sent
RejectClick(c, k, w) ==
    /\ Arrive
    /\ click[c].pc = "idle"
    /\ IF getPendingApproval(Store, k) = Undefined
       THEN /\ lastMiss' = k
            /\ UNCHANGED <<storeVars, click, resolved>>
       ELSE /\ Commit(rejectFeedback(Store, k, now, w))
            /\ click' = [click EXCEPT ![c] = [pc |-> "notifying", key |-> k,
                                               notice |-> "rejected"]]
            /\ resolved' = [resolved EXCEPT ![k] = @ + 1]
            /\ UNCHANGED lastMiss
    /\ UNCHANGED <<now, ticks, ingest, deliveries, extractorCalls, extractorFailures, permalinks,
                   promptsPosted,
                   createCalls, tasksCreated, restarts, cleared>>

\* handleReview lines 357-433: guard, the modal is opened
ReviewClick(c, k) ==
    /\ Arrive
    /\ click[c].pc = "idle"
    /\ IF getPendingApproval(Store, k) = Undefined
       THEN /\ lastMiss' = k
            /\ UNCHANGED click
       ELSE /\ click' = [click EXCEPT ![c] = [pc |-> "notifying", key |-> k,
                                               notice |-> "modal"]]
            /\ UNCHANGED lastMiss
    /\ UNCHANGED <<storeVars, now, ticks, ingest, worldVars, restarts, cleared>>

\* sendSlackUpdate / views.open returns: lines 435-447
NotifyReturn(c) ==
    /\ click[c].pc = "notifying"
    /\ click' = [click EXCEPT ![c] = Idle]
    /\ UNCHANGED <<storeVars, now, ticks, ingest, worldVars, lastMiss, restarts, cleared, events>>

(***************************************************************************)
(* FeedbackBot (src/QUICKSTART.md lines 162-395)                           *)
(***************************************************************************)
\* handleApprovalAction(messageId, action): lines 327-342
HandleApprovalAction(k, action, w) ==
    /\ Arrive
    /\ IF action = "approve"
       THEN Commit(approveFeedback(Store, k, NoProps, now, w))
       ELSE Commit(rejectFeedback(Store, k, now, w))
    /\ UNCHANGED <<now, ticks, ingest, click, worldVars, lastMiss, restarts, cleared>>

\* the updates of the model that handleApprovalAction is called with
Overrides == {[status |-> Str("archived")]}

\* handleApprovalAction(messageId, 'approve', updates): lines 327-335
ApproveWith(k, updates, w) ==
    /\ Arrive
    /\ Commit(approveFeedback(Store, k, updates, now, w))
    /\ UNCHANGED <<now, ticks, ingest, click, worldVars, lastMiss, restarts, cleared>>

\* the daily cron job of start(): lines 360-363
DailyCleanup(w) ==
    /\ Arrive
    /\ Commit(clearOldApprovals(Store, SweepDays, now, w))
    /\ cleared' = cleared + (Len(pendingApprovals) - Len(clearOldApprovals(Store, SweepDays, now, w).pa))
    /\ UNCHANGED <<now, ticks, ingest, click, worldVars, lastMiss, restarts>>

(***************************************************************************)
(* The store's methods called one after another, as their callers in       *)
(* interactive-server.js and in FeedbackBot call them                      *)
(***************************************************************************)
\* addPendingApproval(messageId, item): called at interactive-server.js line 618
StoreRegister(ts, title, w) ==
    /\ Arrive
    /\ Commit(addPendingApproval(Store, MessageIdOf(ts), FeedbackItem(ts, title), now, w))
    /\ UNCHANGED <<now, ticks, ingest, click, worldVars, lastMiss, cleared, restarts>>

\* removePendingApproval(messageId): called at interactive-server.js line 184
StoreRemove(k, w) ==
    /\ Arrive
    /\ Commit(removePendingApproval(Store, k, now, w))
    /\ UNCHANGED <<now, ticks, ingest, click, worldVars, lastMiss, cleared, restarts>>

\* markAsProcessed(messageTs): called at interactive-server.js line 641
StoreMarkProcessed(ts, w) ==
    /\ Arrive
    /\ Commit(markAsProcessed(Store, ts, now, w))
    /\ UNCHANGED <<now, ticks, ingest, click, worldVars, lastMiss, cleared, restarts>>

\* time passes: by the retention period, or by one millisecond more
Tick(d) ==
    /\ ticks < MaxTicks
    /\ now' = now + d
    /\ ticks' = ticks + 1
    /\ UNCHANGED <<storeVars, ingest, click, worldVars, lastMiss, restarts, cleared, events>>

\* the process is stopped and started again: the background tasks are gone and
\* a new ApprovalHandler loads the snapshot (approval-handler.js lines 9-14)
Restart ==
    /\ restarts < MaxRestarts
    /\ restarts' = restarts + 1
    /\ Commit(loadData(dataFile, writeFailures))
    /\ ingest' = [i \in IngestTasks |-> Idle]
    /\ click' = [c \in ClickTasks |-> Idle]
    /\ UNCHANGED <<now, ticks, worldVars, lastMiss, cleared, events>>

(***************************************************************************)
(* main() and FeedbackBot.initialize(): src/QUICKSTART.md lines 180-198    *)
(* and 401-412; SlackClient.initialize(): part_001 lines 13-48             *)
(***************************************************************************)
\* what the lookup of a channel by name ends with: conversations.list returns
\* the channel, returns no channel of that name, or throws
Lookups == {"found", "notFound", "error"}

\* SlackClient.initialize(): the approval channel is taken from the
\* configuration or looked up by name; a failed lookup is caught and logged
\* (part_001 lines 44-46) and leaves it null
resolveApprovalChannel(configured, lookup) ==
    IF configured \/ lookup = "found" THEN ApprovalChannel ELSE Null

\* initialize() lines 183-188: slackClient.initialize() returns, the schema of the
\* Notion database is asked for
SlackInitReturn(configured, lookup) ==
    /\ proc = "starting"
    /\ approvalChannelId' = resolveApprovalChannel(configured, lookup)
    /\ proc' = "notionInit"
    /\ UNCHANGED <<storeVars, now, ticks, ingest, click, worldVars, lastMiss, cleared,
                   restarts, events, gatewayVars, pollVars>>

\* initialize() lines 187-196 and main() lines 405-412: getDatabaseSchema returns
\* the schema, or null when the database cannot be retrieved
\* (notion-client.js lines 174-177); Object.keys(null) throws, initialize()
\* returns false and main() exits; otherwise start() starts the server
SchemaReturn(reachable) ==
    /\ proc = "notionInit"
    /\ proc' = IF reachable THEN "serving" ELSE "exited"
    /\ UNCHANGED <<storeVars, now, ticks, ingest, click, worldVars, lastMiss, cleared,
                   restarts, events, gatewayVars, approvalChannelId, pollVars>>

(***************************************************************************)
(* POST /slack/events: interactive-server.js lines 35-76                   *)
(***************************************************************************)
\* the message events of the model: text is present, blank or absent (with no
\* attachments); channel is a channel id or null
MessageEvents ==
    [type : {"message"}, text : {"text", "blank", "none"},
     channel : {FeedbackChannel, OtherChannel, Null},
     bot_id : BOOLEAN, thread_ts : BOOLEAN, ts : Ts]
\* the bodies of the model: the verification challenge, an event_callback with a
\* message event, with an event of another type or with no event, and a body of
\* another type
EventBodies ==
    {[type |-> "url_verification"], [type |-> "other"]}
    \cup [type : {"event_callback"},
          event : MessageEvents \cup {[type |-> "reaction_added"], Undefined}]

\* faulty variant: the acknowledgment is sent after the handler's calls
RouteLog_AckLast(calls) == calls \o <<"ack">>

\* what a route does for a request it acknowledges, in the order of the code:
\* res.status(200).json({}) at lines 49 and 106, then the calls that the
\* dispatched handler makes before its first await
RouteLog(calls) == <<"ack">> \o calls

\* faulty variant: the catch answers 200
RouteCatch_Ok(sent) == <<"ack">>

\* the catch of a route (lines 71-75 and 116-122) calls res.status(500).json():
\* that is the response when none was sent; when the acknowledgment was sent it
\* throws in turn, in an async handler whose rejection nothing handles
RouteCatch(sent) ==
    IF sent THEN <<"respond500", "unhandledRejection">> ELSE <<"respond500">>

\* lines 38-59: the body is inspected, the event acknowledged, and the id of the
\* feedback channel asked for; an error after the acknowledgment goes to the
\* catch at line 71, whose res.status(500).json() throws in turn as the headers
\* are sent
EventsPost(i, body) ==
    /\ proc = "serving"
    /\ Arrive
    /\ ingest[i].pc = "idle"
    /\ IF body.type = "url_verification"
       THEN /\ eventsLog' = [eventsLog EXCEPT ![i] = <<"challenge">>]
            /\ UNCHANGED ingest
       ELSE IF body.type # "event_callback"
       THEN /\ eventsLog' = [eventsLog EXCEPT ![i] = RouteLog(<<>>)]
            /\ UNCHANGED ingest
       ELSE IF body.event = Undefined
       THEN /\ eventsLog' = [eventsLog EXCEPT ![i] =
                                RouteLog(<<>>) \o RouteCatch(TRUE)]
            /\ UNCHANGED ingest
       ELSE IF body.event.type # "message" \/ body.event.text = "none"
       THEN /\ eventsLog' = [eventsLog EXCEPT ![i] = RouteLog(<<>>)]
            /\ UNCHANGED ingest
       ELSE /\ eventsLog' = [eventsLog EXCEPT ![i] = RouteLog(<<>>)]
            /\ ingest' = [ingest EXCEPT ![i] =
                             [pc |-> "resolving", event |-> body.event,
                              cached |-> feedbackChannelId]]
    /\ UNCHANGED <<storeVars, now, ticks, click, worldVars, lastMiss, cleared, restarts,
                   feedbackChannelId, interactionsLog, blockActions, bootVars, pollVars>>

\* getFeedbackChannelId(): lines 468-493; the cached id, or the id of the channel
\* named 'feedback', or null when the lookup finds none or throws
getFeedbackChannelId(cached, lookup) ==
    IF cached # Null THEN cached
    ELSE IF lookup = "found" THEN FeedbackChannel ELSE Null

\* line 60: event.channel === feedbackChannelId && !event.bot_id && !event.thread_ts
PassesFilter(event, channelId) ==
    event.channel = channelId /\ ~event.bot_id /\ ~event.thread_ts

\* lines 58-68: getFeedbackChannelId returns, the filter is applied and
\* processFeedbackMessage is called, which runs up to its first await
ChannelReturn(i, lookup) ==
    /\ ingest[i].pc = "resolving"
    /\ LET event == ingest[i].event
           channelId == getFeedbackChannelId(ingest[i].cached, lookup)
       IN /\ feedbackChannelId' =
                 IF ingest[i].cached = Null /\ channelId # Null
                 THEN channelId ELSE feedbackChannelId
          /\ IF PassesFilter(event, channelId)
             THEN /\ StartIngest(i, event.ts, event.text = "blank")
                  /\ eventsLog' = [eventsLog EXCEPT ![i] =
                         IF ~isProcessed(Store, event.ts) /\ event.text # "blank"
                         THEN Append(@, "analyzeBatch") ELSE @]
             ELSE /\ ingest' = [ingest EXCEPT ![i] = Idle]
                  /\ UNCHANGED <<storeVars, now, ticks, click, worldVars, lastMiss,
                                 cleared, restarts, eventsLog>>
    /\ UNCHANGED <<events, interactionsLog, blockActions, bootVars, pollVars>>

(***************************************************************************)
(* POST /slack/interactions: interactive-server.js lines 79-123            *)
(***************************************************************************)
\* the payloads of the model: one that does not parse, one of another type, and
\* block_actions with one action
ActionIds == {"approve_", "reject_", "review_", "assign_john_", "other"}
Payloads ==
    {[type |-> "unparsable"], [type |-> "view_submission"]}
    \cup [type : {"block_actions"}, action_id : ActionIds, value : Keys]

\* the calls a handler makes before its first await, for an action on key k
HandlerCalls(action_id, k) ==
    CASE action_id = "approve_" /\ getPendingApproval(Store, k) # Undefined
             -> <<"approveFeedback", "createTask">>
      [] action_id = "reject_" /\ getPendingApproval(Store, k) # Undefined
             -> <<"rejectFeedback">>
      [] action_id = "assign_john_" -> <<"assignTaskToPerson">>
      [] OTHER -> <<>>

\* handleAssignToJohn lines 312-317: the Notion page is asked to be assigned
AssignClick(c, pageId) ==
    /\ Arrive
    /\ click[c].pc = "idle"
    /\ click' = [click EXCEPT ![c] = [pc |-> "assigning", key |-> pageId]]
    /\ UNCHANGED <<storeVars, now, ticks, ingest, worldVars, lastMiss, restarts, cleared>>

\* handleAssignToJohn lines 317-354: assignTaskToPerson returns or throws, the
\* confirmation or the failure notice is sent
AssignReturn(c, assigned) ==
    /\ click[c].pc = "assigning"
    /\ click' = [click EXCEPT ![c] =
                    [pc |-> "notifying", key |-> click[c].key,
                     notice |-> IF assigned THEN "assigned" ELSE "assignFailed"]]
    /\ UNCHANGED <<storeVars, now, ticks, ingest, worldVars, lastMiss, restarts, cleared,
                   events>>

\* lines 84-115: the payload is parsed (a payload that does not parse goes to the
\* catch at line 116 before anything was sent), the interaction acknowledged and
\* handleBlockActions called, which runs up to its first await
InteractionsPost(c, payload) ==
    /\ proc = "serving"
    /\ click[c].pc = "idle"
    /\ IF payload.type = "unparsable"
       THEN /\ Arrive
            /\ interactionsLog' = [interactionsLog EXCEPT ![c] = RouteCatch(FALSE)]
            /\ UNCHANGED <<storeVars, now, ticks, ingest, click, worldVars, lastMiss,
                           restarts, cleared>>
       ELSE IF payload.type # "block_actions"
       THEN /\ Arrive
            /\ interactionsLog' = [interactionsLog EXCEPT ![c] = RouteLog(<<>>)]
            /\ UNCHANGED <<storeVars, now, ticks, ingest, click, worldVars, lastMiss,
                           restarts, cleared>>
       ELSE /\ interactionsLog' = [interactionsLog EXCEPT ![c] =
                   RouteLog(HandlerCalls(payload.action_id, payload.value))]
            /\ CASE payload.action_id = "approve_" -> ApproveClick(c, payload.value, "ok")
                 [] payload.action_id = "reject_" -> RejectClick(c, payload.value, "ok")
                 [] payload.action_id = "review_" -> ReviewClick(c, payload.value)
                 [] payload.action_id = "assign_john_" -> AssignClick(c, payload.value)
                 [] OTHER ->
                      /\ Arrive
                      /\ UNCHANGED <<storeVars, now, ticks, ingest, click, worldVars,
                                     lastMiss, restarts, cleared>>
    /\ UNCHANGED <<feedbackChannelId, eventsLog, blockActions, bootVars, pollVars>>

(***************************************************************************)
(* handleBlockActions for a payload of several actions: lines 126-150.     *)
(* blockActions[c] is the record [actions, left, handlers]: the actions of *)
(* the payload, those the loop has not reached, and what each action it    *)
(* reached was dispatched to.                                              *)
(***************************************************************************)
MaxActions == 2      \* how many actions a block_actions payload carries at most

\* an action whose action_id is missing: actionId.startsWith throws a TypeError
MissingId == "missing"
\* the payloads of the model: the buttons of one prompt, which all carry the key
\* of its candidate, or of a prompt whose candidate is gone
ActionLists ==
    {[n \in DOMAIN ids |-> [action_id |-> ids[n], value |-> k]] :
        ids \in UNION {[1..n -> ActionIds \cup {MissingId}] : n \in 1..MaxActions},
        k \in {MessageIdOf(<<111, 222>>), StaleKey}}

\* lines 136-144: the handler the chain of startsWith tests selects
HandlerOf(action_id) ==
    IF action_id = MissingId THEN "TypeError"
    ELSE IF action_id = "approve_" THEN "handleApproval"
    ELSE IF action_id = "reject_" THEN "handleRejection"
    ELSE IF action_id = "review_" THEN "handleReview"
    ELSE IF action_id = "assign_john_" THEN "handleAssignToJohn"
    ELSE "none"

\* faulty variant: an error thrown for one action ends the loop
actionsAfter_Rethrow(left, handler) == IF handler = "TypeError" THEN <<>> ELSE Tail(left)
\* lines 129 and 145-148: the catch logs the error, the loop goes on with the
\* next action
actionsAfter(left, handler) == Tail(left)

\* lines 106-113 and 126-127: the interaction is acknowledged and
\* handleBlockActions called with the actions of the payload; every action of
\* the payload fits in the events of the model
BlockActionsPost(c, actions) ==
    /\ proc = "serving"
    /\ click[c].pc = "idle"
    /\ blockActions[c].left = <<>>
    /\ events + Len(actions) <= MaxEvents
    /\ blockActions' = [blockActions EXCEPT ![c] =
                           [actions |-> actions, left |-> actions, handlers |-> <<>>]]
    /\ UNCHANGED <<storeVars, now, ticks, ingest, click, worldVars, lastMiss, restarts,
                   cleared, events, feedbackChannelId, eventsLog, interactionsLog,
                   bootVars, pollVars>>

\* lines 129-148: one turn of the loop, up to the first await of the handler; it
\* is taken when the handler of the action before has returned
DispatchAction(c) ==
    /\ click[c].pc = "idle"
    /\ blockActions[c].left # <<>>
    /\ LET action == Head(blockActions[c].left)
           handler == HandlerOf(action.action_id)
       IN /\ CASE handler = "handleApproval" -> ApproveClick(c, action.value, "ok")
                [] handler = "handleRejection" -> RejectClick(c, action.value, "ok")
                [] handler = "handleReview" -> ReviewClick(c, action.value)
                [] handler = "handleAssignToJohn" -> AssignClick(c, action.value)
                [] OTHER ->
                     /\ Arrive
                     /\ UNCHANGED <<storeVars, now, ticks, ingest, click, worldVars,
                                    lastMiss, restarts, cleared>>
          /\ blockActions' = [blockActions EXCEPT ![c] =
                                 [@ EXCEPT !.left = actionsAfter(@, handler),
                                           !.handlers = Append(@, handler)]]
    /\ UNCHANGED <<feedbackChannelId, eventsLog, interactionsLog, bootVars, pollVars>>

(***************************************************************************)
(* FeedbackBot.processNewMessages(): src/QUICKSTART.md lines 203-322.      *)
(* A cycle is the record [pc, exit, newMessages, queue]: where the call    *)
(* is, how the last call on the slot ended, the messages it analyses and   *)
(* what is left of the loop it is in.                                      *)
(***************************************************************************)
\* faulty variant: a cycle starts whether or not another one is running
MayStart_Always(running) == TRUE

\* lines 204-207: if (this.isRunning) return
MayStart(running) == ~running

\* what getRecentMessages returns (part_001 lines 53-110): the recent messages of
\* the feedback channel, none when the channel or its history cannot be read
RecentMessages == {<<>>, <<<<111, 222>>>>, <<<<111, 333>>>>, <<<<111, 222>>, <<111, 333>>>>}

RECURSIVE MarkAll(_, _, _, _)
\* lines 300-303: every analysed message is marked processed
MarkAll(S, msgs, t, w) ==
    IF msgs = <<>> THEN S
    ELSE MarkAll(markAsProcessed(S, Head(msgs), t, w), Tail(msgs), t, w)

\* lines 290-295: the first candidate whose title is the title of the created
\* task is removed
RemoveByTitle(S, title, t, w) ==
    LET hits == {n \in 1..Len(S.pa) : Prop(S.pa[n][2], "title") = title}
    IN IF hits = {} THEN S
       ELSE removePendingApproval(
                S, S.pa[CHOOSE n \in hits : \A m \in hits : n <= m][1], t, w)

\* lines 204-217: the guard, then getRecentMessages is called
CycleStart(j) ==
    /\ Arrive
    /\ cycle[j].pc = "idle"
    /\ IF MayStart(isRunning)
       THEN /\ isRunning' = TRUE
            /\ cycle' = [cycle EXCEPT ![j] = [pc |-> "fetching", exit |-> "none"]]
       ELSE /\ cycle' = [cycle EXCEPT ![j] = CycleIdle("skipped")]
            /\ UNCHANGED isRunning
    /\ UNCHANGED <<storeVars, now, ticks, ingest, click, worldVars, lastMiss, cleared,
                   restarts, gatewayVars, bootVars>>

\* lines 217-238: getRecentMessages returns; the cycle ends when there is no
\* message or no unprocessed one, otherwise analyzeBatch is called
FetchReturn(j, messages) ==
    /\ cycle[j].pc = "fetching"
    /\ LET newMessages == SelectSeq(messages, LAMBDA ts : ~isProcessed(Store, ts))
       IN IF Len(messages) = 0 \/ Len(newMessages) = 0
          THEN /\ isRunning' = FALSE
               /\ cycle' = [cycle EXCEPT ![j] =
                      CycleIdle(IF Len(messages) = 0 THEN "noMessages" ELSE "allProcessed")]
               /\ UNCHANGED extractorCalls
          ELSE /\ cycle' = [cycle EXCEPT ![j] =
                      [pc |-> "analyzing", exit |-> "none", newMessages |-> newMessages]]
               /\ extractorCalls' =
                      [ts \in Ts |-> extractorCalls[ts]
                                     + (IF \E n \in 1..Len(newMessages) : newMessages[n] = ts
                                        THEN 1 ELSE 0)]
               /\ UNCHANGED isRunning
    /\ UNCHANGED <<storeVars, now, ticks, ingest, click, deliveries, promptsPosted, resolved,
                   createCalls, tasksCreated, extractorFailures, permalinks, lastMiss, cleared, restarts,
                   events, gatewayVars, bootVars>>

\* lines 300-321: the analysed messages are marked processed and the guard is
\* released
CycleFinish(j, S, w) ==
    /\ Commit(MarkAll(S, cycle[j].newMessages, now, w))
    /\ isRunning' = FALSE
    /\ cycle' = [cycle EXCEPT ![j] = CycleIdle("complete")]
    /\ UNCHANGED createCalls

\* lines 265-270: the approved candidates are listed and createTask is called for
\* the first one; with none the cycle finishes
CreateApproved(j, S, w) ==
    LET approved == SelectSeq(S.pa, LAMBDA e : Prop(e[2], "status") = Str("approved"))
    IN IF approved = <<>> THEN CycleFinish(j, S, w)
       ELSE /\ Commit(S)
            /\ cycle' = [cycle EXCEPT ![j] =
                   [pc |-> "creating", exit |-> "none",
                    newMessages |-> cycle[j].newMessages, queue |-> approved]]
            /\ createCalls' = [createCalls EXCEPT ![approved[1][1]] = @ + 1]
            /\ UNCHANGED isRunning

\* lines 243-251: the next feedback item is registered and its permalink asked
\* for; with none left the cycle goes on to the approved candidates
RegisterNext(j, S, queue, title, w) ==
    IF queue = <<>> THEN CreateApproved(j, S, w)
    ELSE /\ Commit(addPendingApproval(S, MessageIdOf(Head(queue)),
                                      FeedbackItem(Head(queue), title), now, w))
         /\ cycle' = [cycle EXCEPT ![j] =
                [pc |-> "permalink", exit |-> "none",
                 newMessages |-> cycle[j].newMessages, queue |-> queue, title |-> title]]
         /\ UNCHANGED <<isRunning, createCalls>>

\* lines 238-251: analyzeBatch returns the feedback found among the messages
CycleAnalyzeReturn(j, feedback, title, w) ==
    /\ cycle[j].pc = "analyzing"
    /\ RegisterNext(j, Store,
                    SelectSeq(cycle[j].newMessages, LAMBDA ts : ts \in feedback), title, w)
    /\ UNCHANGED <<now, ticks, ingest, click, deliveries, extractorCalls, promptsPosted,
                   resolved, tasksCreated, extractorFailures, permalinks, lastMiss, cleared, restarts,
                   events, gatewayVars, bootVars>>

\* lines 248-258: getMessagePermalink returns, sendApprovalMessage is called
CyclePermalinkReturn(j) ==
    /\ cycle[j].pc = "permalink"
    /\ cycle' = [cycle EXCEPT ![j].pc = "sending"]
    /\ UNCHANGED <<storeVars, now, ticks, ingest, click, worldVars, lastMiss, cleared,
                   restarts, events, gatewayVars, bootVars, isRunning>>

\* lines 258-270: sendApprovalMessage returns; the loop goes on
CycleSendReturn(j, posted, w) ==
    /\ cycle[j].pc = "sending"
    /\ promptsPosted' = [promptsPosted EXCEPT
                            ![Head(cycle[j].queue)] = @ + (IF posted THEN 1 ELSE 0)]
    /\ RegisterNext(j, Store, Tail(cycle[j].queue), cycle[j].title, w)
    /\ UNCHANGED <<now, ticks, ingest, click, deliveries, extractorCalls, resolved,
                   tasksCreated, extractorFailures, permalinks, lastMiss, cleared, restarts, events,
                   gatewayVars, bootVars>>

\* lines 270-303: createTask returns a page or throws (caught at line 298); on
\* success a candidate of that title is removed; the loop goes on
CycleCreateReturn(j, created, w) ==
    /\ cycle[j].pc = "creating"
    /\ LET queue == cycle[j].queue
           item == queue[1][2]
           S == IF created THEN RemoveByTitle(Store, Prop(item, "title"), now, w) ELSE Store
       IN /\ tasksCreated' = [tasksCreated EXCEPT
                                 ![queue[1][1]] = @ + (IF created THEN 1 ELSE 0)]
          /\ IF Len(queue) = 1
             THEN CycleFinish(j, S, w)
             ELSE /\ Commit(S)
                  /\ cycle' = [cycle EXCEPT ![j].queue = Tail(queue)]
                  /\ createCalls' = [createCalls EXCEPT ![queue[2][1]] = @ + 1]
                  /\ UNCHANGED isRunning
    /\ UNCHANGED <<now, ticks, ingest, click, deliveries, extractorCalls, promptsPosted,
                   resolved, extractorFailures, permalinks, lastMiss, cleared, restarts, events,
                   gatewayVars, bootVars>>

(***************************************************************************)
(* The gateway: every event is dispatched as it arrives (fire-and-forget,  *)
(* interactive-server.js lines 65-67 and 112-114), so the handlers of      *)
(* several events interleave at their awaits.  Writes succeed, and so do   *)
(* the lookups of the user and of the permalink.                           *)
(***************************************************************************)
Next ==
    \/ \E i \in IngestTasks, ts \in Ts, emptyText \in BOOLEAN : IngestBegin(i, ts, emptyText) /\ UNCHANGED extVars
    \/ \E i \in IngestTasks, result \in AnalyzeResults, title \in Titles :
          AnalyzeReturn(i, result, title, "ok") /\ UNCHANGED extVars
    \/ \E i \in IngestTasks : UserInfoReturn(i, TRUE, "ok") /\ UNCHANGED extVars
    \/ \E i \in IngestTasks : PermalinkReturn(i, TRUE) /\ UNCHANGED extVars
    \/ \E i \in IngestTasks, posted \in BOOLEAN : SendReturn(i, posted, "ok") /\ UNCHANGED extVars
    \/ \E c \in ClickTasks, k \in Keys \ {StaleKey} : ApproveClick(c, k, "ok") /\ UNCHANGED extVars
    \/ \E c \in ClickTasks, created \in BOOLEAN : CreateReturn(c, created, "ok") /\ UNCHANGED extVars
    \/ \E c \in ClickTasks, k \in Keys \ {StaleKey} : RejectClick(c, k, "ok") /\ UNCHANGED extVars
    \/ \E c \in ClickTasks, k \in Keys \ {StaleKey} : ReviewClick(c, k) /\ UNCHANGED extVars
    \/ \E c \in ClickTasks : NotifyReturn(c) /\ UNCHANGED extVars

Spec == Init /\ [][Next]_vars

(***************************************************************************)
(* One event at a time: an event or a direct call happens only when no     *)
(* handler is in flight.  Writes may fail; the lookups of the user and of   *)
(* the permalink succeed.                                                  *)
(***************************************************************************)
NextSerial ==
    \/ \E ts \in Ts, emptyText \in BOOLEAN : AllIdle /\ IngestBegin(1, ts, emptyText) /\ UNCHANGED extVars
    \/ \E result \in AnalyzeResults, title \in Titles, w \in Writes :
          AnalyzeReturn(1, result, title, w) /\ UNCHANGED extVars
    \/ \E w \in Writes : UserInfoReturn(1, TRUE, w) /\ UNCHANGED extVars
    \/ PermalinkReturn(1, TRUE) /\ UNCHANGED extVars
    \/ \E posted \in BOOLEAN, w \in Writes : SendReturn(1, posted, w) /\ UNCHANGED extVars
    \/ \E k \in Keys, w \in Writes : AllIdle /\ ApproveClick(1, k, w) /\ UNCHANGED extVars
    \/ \E created \in BOOLEAN, w \in Writes : CreateReturn(1, created, w) /\ UNCHANGED extVars
    \/ \E k \in Keys, w \in Writes : AllIdle /\ RejectClick(1, k, w) /\ UNCHANGED extVars
    \/ \E k \in Keys : AllIdle /\ ReviewClick(1, k) /\ UNCHANGED extVars
    \/ NotifyReturn(1) /\ UNCHANGED extVars
    \/ \E k \in Keys, action \in {"approve", "reject"}, w \in Writes :
          AllIdle /\ HandleApprovalAction(k, action, w) /\ UNCHANGED extVars

SerialSpec == Init /\ [][NextSerial]_vars

(***************************************************************************)
(* The store alone: its methods in any order, failing writes, the passing  *)
(* of time and restarts.                                                   *)
(***************************************************************************)
NextStore ==
    \/ \E ts \in Ts, title \in Titles, w \in Writes : StoreOp /\ StoreRegister(ts, title, w) /\ UNCHANGED extVars
    \/ \E k \in Keys, action \in {"approve", "reject"}, w \in Writes :
          StoreOp /\ HandleApprovalAction(k, action, w) /\ UNCHANGED extVars
    \/ \E k \in Keys, w \in Writes : StoreOp /\ StoreRemove(k, w) /\ UNCHANGED extVars
    \/ \E ts \in Ts, w \in Writes : StoreOp /\ StoreMarkProcessed(ts, w) /\ UNCHANGED extVars
    \/ \E w \in Writes : StoreOp /\ DailyCleanup(w) /\ UNCHANGED extVars
    \/ \E d \in {SweepDays * DayMs, SweepDays * DayMs + 1} : Tick(d) /\ UNCHANGED extVars
    \/ Restart /\ UNCHANGED extVars

StoreSpec == Init /\ [][NextStore]_vars

(***************************************************************************)
(* The program from main(): initialization, then the two routes of the     *)
(* gateway with the handlers they dispatch, one request of each route in   *)
(* flight at a time.  Writes succeed, and so do the lookups of the user    *)
(* and of the permalink.                                                   *)
(***************************************************************************)
InitBoot ==
    /\ Constructed
    /\ proc = "starting"
    /\ approvalChannelId = Null

\* sendApprovalMessage posts nothing when the approval channel is not set
\* (part_001 lines 129-132); otherwise chat.postMessage succeeds or throws
Postings == IF approvalChannelId = Null THEN {FALSE} ELSE BOOLEAN

NextGateway ==
    \/ \E configured \in BOOLEAN, lookup \in Lookups : SlackInitReturn(configured, lookup)
    \/ \E reachable \in BOOLEAN : SchemaReturn(reachable)
    \/ \E body \in EventBodies : Request /\ EventsPost(1, body)
    \/ \E lookup \in Lookups : ChannelReturn(1, lookup)
    \/ \E result \in AnalyzeResults, title \in Titles :
          AnalyzeReturn(1, result, title, "ok") /\ UNCHANGED extVars
    \/ UserInfoReturn(1, TRUE, "ok") /\ UNCHANGED extVars
    \/ PermalinkReturn(1, TRUE) /\ UNCHANGED extVars
    \/ \E posted \in Postings : SendReturn(1, posted, "ok") /\ UNCHANGED extVars
    \/ \E payload \in Payloads : Request /\ InteractionsPost(1, payload)
    \/ \E created \in BOOLEAN : CreateReturn(1, created, "ok") /\ UNCHANGED extVars
    \/ \E assigned \in BOOLEAN : AssignReturn(1, assigned) /\ UNCHANGED extVars
    \/ NotifyReturn(1) /\ UNCHANGED extVars

GatewaySpec == InitBoot /\ [][NextGateway]_vars

(***************************************************************************)
(* The polling bot: processNewMessages is triggered at any time, also      *)
(* while a cycle is running, and candidates are approved or rejected by    *)
(* handleApprovalAction between the steps of a cycle.  Writes succeed.     *)
(***************************************************************************)
NextPoll ==
    \/ \E j \in CycleTasks : CycleStart(j)
    \/ \E j \in CycleTasks, messages \in RecentMessages : FetchReturn(j, messages)
    \/ \E j \in CycleTasks, feedback \in SUBSET Ts, title \in Titles :
          CycleAnalyzeReturn(j, feedback, title, "ok")
    \/ \E j \in CycleTasks : CyclePermalinkReturn(j)
    \/ \E j \in CycleTasks, posted \in BOOLEAN : CycleSendReturn(j, posted, "ok")
    \/ \E j \in CycleTasks, created \in BOOLEAN : CycleCreateReturn(j, created, "ok")
    \/ \E k \in Keys, action \in {"approve", "reject"} :
          HandleApprovalAction(k, action, "ok") /\ UNCHANGED extVars
    \/ \E k \in Keys, updates \in Overrides :
          ApproveWith(k, updates, "ok") /\ UNCHANGED extVars

PollSpec == Init /\ [][NextPoll]_vars

(***************************************************************************)
(* The Extractor: one event at a time, the call of the model and the       *)
(* return of analyzeBatch taken as two steps.  Writes succeed; the lookups *)
(* of the user and of the permalink may fail.                              *)
(***************************************************************************)
\* the upstream calls of the ingestion of slot 1 return, with success or failure
ReplyReturns == \E reply \in Replies : ReplyArrives(1, reply) /\ UNCHANGED extVars
BatchReturns == \E title \in Titles : BatchReturn(1, title, "ok") /\ UNCHANGED extVars
UserInfoReturns == \E named \in BOOLEAN : UserInfoReturn(1, named, "ok") /\ UNCHANGED extVars
PermalinkReturns == \E found \in BOOLEAN : PermalinkReturn(1, found) /\ UNCHANGED extVars
SendReturns == \E posted \in BOOLEAN : SendReturn(1, posted, "ok") /\ UNCHANGED extVars

NextExtractor ==
    \/ \E ts \in Ts, emptyText \in BOOLEAN :
          AllIdle /\ IngestBegin(1, ts, emptyText) /\ UNCHANGED extVars
    \/ \E reply \in Replies : ReplyArrives(1, reply) /\ UNCHANGED extVars
    \/ \E title \in Titles : BatchReturn(1, title, "ok") /\ UNCHANGED extVars
    \/ \E named \in BOOLEAN : UserInfoReturn(1, named, "ok") /\ UNCHANGED extVars
    \/ \E found \in BOOLEAN : PermalinkReturn(1, found) /\ UNCHANGED extVars
    \/ \E posted \in BOOLEAN : SendReturn(1, posted, "ok") /\ UNCHANGED extVars

ExtractorSpec == Init /\ [][NextExtractor]_vars

(***************************************************************************)
(* The events with their texts: one event at a time, the text check made   *)
(* on the text and the attachments of the event.  Writes, the lookups and  *)
(* the posting of the prompt succeed.                                      *)
(***************************************************************************)
NextText ==
    \/ \E event \in TextEvents : AllIdle /\ IngestEvent(1, event) /\ UNCHANGED extVars
    \/ \E result \in AnalyzeResults, title \in Titles :
          AnalyzeReturn(1, result, title, "ok") /\ UNCHANGED extVars
    \/ UserInfoReturn(1, TRUE, "ok") /\ UNCHANGED extVars
    \/ PermalinkReturn(1, TRUE) /\ UNCHANGED extVars
    \/ SendReturn(1, TRUE, "ok") /\ UNCHANGED extVars

TextSpec == Init /\ [][NextText]_vars

(***************************************************************************)
(* The ingestion of one event at a time, every upstream call returning in  *)
(* the end: a pending promise of the model, messages.create and the pause  *)
(* of analyzeBatch, users.info, chat.getPermalink or chat.postMessage, is  *)
(* settled with success or failure, and the event loop then runs the       *)
(* continuation of processFeedbackMessage.  Nothing is assumed of the      *)
(* arrival of events.                                                      *)
(***************************************************************************)
IngestionSpec ==
    /\ ExtractorSpec
    /\ WF_vars(ReplyReturns)
    /\ WF_vars(BatchReturns)
    /\ WF_vars(UserInfoReturns)
    /\ WF_vars(PermalinkReturns)
    /\ WF_vars(SendReturns)

(***************************************************************************)
(* The interactions route with payloads of several actions: one            *)
(* handleBlockActions call at a time, on stored candidates that the        *)
(* ingestion registered before.  Writes succeed; createTask and            *)
(* assignTaskToPerson may fail.                                            *)
(***************************************************************************)
NextActions ==
    \/ \E ts \in Ts, title \in Titles :
          /\ blockActions[1].actions = <<>>
          /\ StoreRegister(ts, title, "ok") /\ UNCHANGED extVars
    \/ \E actions \in ActionLists : BlockActionsPost(1, actions)
    \/ DispatchAction(1)
    \/ \E created \in BOOLEAN : CreateReturn(1, created, "ok") /\ UNCHANGED extVars
    \/ \E assigned \in BOOLEAN : AssignReturn(1, assigned) /\ UNCHANGED extVars
    \/ NotifyReturn(1) /\ UNCHANGED extVars

ActionsSpec == Init /\ [][NextActions]_vars

(***************************************************************************)
(* Properties                                                              *)
(***************************************************************************)
\* the store after a step
StoreNext == [pa |-> pendingApprovals', pm |-> processedMessages', file |-> dataFile',
              lastWrite |-> lastWrite', failures |-> writeFailures']

StatusOf(pa, k) == Prop(MapGet(pa, k), "status")

\* C1: when the notifications of a message are handled one after another, at
\* most one approval prompt is posted for the message.
C1_IdempotentIngestion ==
    \A ts \in Ts : promptsPosted[ts] <= 1

\* a message was delivered twice, analysed once and prompted once
C1_Witness ==
    \E ts \in Ts : /\ deliveries[ts] = 2
                   /\ extractorCalls[ts] = 1
                   /\ promptsPosted[ts] = 1
                   /\ isProcessed(Store, ts)
                   /\ AllIdle

\* C2: under every interleaving of two ingestion tasks for one message, the
\* Extractor is called at most once and at most one prompt is posted for it.
C2_NoDoubleProcessing ==
    \A ts \in Ts : extractorCalls[ts] <= 1 /\ promptsPosted[ts] <= 1

\* C3: under every interleaving of button clicks, createTask succeeds at most
\* once for a candidate key.
C3_NoDoubleTask ==
    \A k \in Keys : tasksCreated[k] <= 1

\* C4: for a key that is not in the store, approve and reject return null and
\* leave the store and the snapshot as they are, and a click carrying such a
\* key changes neither the store nor the createTask calls.
C4_MissState ==
    \A k \in Keys :
        ~MapHas(pendingApprovals, k) =>
            /\ approvedFeedback(Store, k, NoProps, now) = Null
            /\ rejectedFeedback(Store, k, now) = Null
            /\ \A w \in WriteOutcomes :
                   /\ approveFeedback(Store, k, NoProps, now, w) = Store
                   /\ rejectFeedback(Store, k, now, w) = Store
C4_MissStep ==
    \A k \in Keys :
        ( /\ events' = events + 1
          /\ ~MapHas(pendingApprovals, k)
          /\ \/ \E w \in WriteOutcomes : ApproveClick(1, k, w)
             \/ \E w \in WriteOutcomes : RejectClick(1, k, w)
             \/ ReviewClick(1, k)
             \/ \E a \in {"approve", "reject"}, w \in WriteOutcomes :
                    HandleApprovalAction(k, a, w) )
        => /\ StoreNext = Store
           /\ UNCHANGED <<click, createCalls, tasksCreated>>
C4_UnknownKeyNoOp == []C4_MissState /\ [][C4_MissStep]_vars

\* an operation found no candidate under a key while the store held another one
C4_Witness ==
    /\ lastMiss \in Keys
    /\ ~MapHas(pendingApprovals, lastMiss)
    /\ Len(pendingApprovals) > 0
    /\ Len(processedMessages) > 0

\* the values a candidate map holds, read property by property
CandidateProps ==
    {"title", "description", "priority", "type", "userId", "messageLink", "status",
     "createdAt", "approvedAt", "rejectedAt"}
SameCandidates(a, b) ==
    /\ Len(a) = Len(b)
    /\ \A i \in 1..Len(a) :
           /\ a[i][1] = b[i][1]
           /\ \A f \in CandidateProps : Prop(a[i][2], f) = Prop(b[i][2], f)

\* the step in which the createTask call of click task c ends with the given notice
CreateEnds(c, notice) ==
    /\ click[c].pc = "creating"
    /\ click'[c].pc = "notifying"
    /\ click'[c].notice = notice

\* C5: after approve, a successful task creation and remove, get(k) finds
\* nothing, k is not among the approved candidates, and every other candidate
\* is unchanged.
C5_CreatedStep ==
    \A c \in ClickTasks :
        CreateEnds(c, "created") =>
            LET k == click[c].key
            IN /\ getPendingApproval(StoreNext, k) = Undefined
               /\ getApprovedFeedbacks(StoreNext) =
                     MapValues(SelectSeq(pendingApprovals,
                                         LAMBDA e : /\ e[1] # k
                                                    /\ Prop(e[2], "status") = Str("approved")))
               /\ \A k2 \in Keys \ {k} :
                      MapGet(pendingApprovals', k2) = MapGet(pendingApprovals, k2)
               /\ processedMessages' = processedMessages
C5_ApproveCreateRemove == [][C5_CreatedStep]_vars

\* a task was created for one candidate while another, approved one is in the store
C5_Witness ==
    /\ click[1].pc = "notifying"
    /\ click[1].notice = "created"
    /\ tasksCreated[click[1].key] = 1
    /\ \E k2 \in Keys \ {click[1].key} : StatusOf(pendingApprovals, k2) = Str("approved")

\* C6: when the createTask call of an approve click fails, the candidate stays
\* in the store in state approved and is among the approved candidates.
C6_FailedStep ==
    \A c \in ClickTasks :
        CreateEnds(c, "failed") =>
            LET k == click[c].key
            IN /\ MapHas(pendingApprovals', k)
               /\ StatusOf(pendingApprovals', k) = Str("approved")
               /\ \E i \in 1..Len(getApprovedFeedbacks(StoreNext)) :
                      getApprovedFeedbacks(StoreNext)[i] = click[c].taskData
               /\ tasksCreated' = tasksCreated
C6_FailedCreateKeepsApproved == [][C6_FailedStep]_vars

\* an approve click on a candidate ended with a failed createTask call
C6_Witness ==
    /\ click[1].pc = "notifying"
    /\ click[1].notice = "failed"
    /\ StatusOf(pendingApprovals, click[1].key) = Str("approved")
    /\ tasksCreated[click[1].key] = 0

\* C7: the cleanup removes exactly the candidates created more than 7 days
\* before it runs, whatever their state, and leaves the others as they are.
C7_SweepStep ==
    (\E w \in WriteOutcomes : events' = events + 1 /\ lastWrite' = w /\ DailyCleanup(w)) =>
        /\ \A k \in Keys :
               MapHas(pendingApprovals', k) <=>
                   /\ MapHas(pendingApprovals, k)
                   /\ GetTime(MapGet(pendingApprovals, k).createdAt) >= now - 7 * DayMs
        /\ \A k \in Keys :
               MapHas(pendingApprovals', k) =>
                   MapGet(pendingApprovals', k) = MapGet(pendingApprovals, k)
        /\ processedMessages' = processedMessages
C7_SweepExact == [][C7_SweepStep]_vars

\* the cleanup removed a candidate created 7 days and 1 ms before it ran and kept
\* a younger one, in memory and in the snapshot
C7_Witness ==
    /\ cleared = 1
    /\ now = 7 * DayMs + 1
    /\ Len(pendingApprovals) = 1
    /\ dataFile.exists /\ dataFile.valid /\ Len(dataFile.pendingApprovals) = 1

\* C8: when no mutation followed the last successful write, a restart loads a
\* candidate map and a processed set equal to those in memory before it.
C8_RestartStep ==
    (restarts' = restarts + 1 /\ lastWrite \in {"ok", "none"}) =>
        /\ SameCandidates(pendingApprovals', pendingApprovals)
        /\ processedMessages' = processedMessages
C8_RestartReproduces == [][C8_RestartStep]_vars

\* a restart loaded candidates and processed messages from the snapshot
C8_Witness ==
    /\ restarts > 0
    /\ lastWrite = "none"
    /\ writeFailures = 0
    /\ Len(processedMessages) > 0
    /\ \E k \in Keys : /\ MapHas(pendingApprovals, k)
                       /\ StatusOf(pendingApprovals, k) # Str("pending")
                       /\ Prop(MapGet(pendingApprovals, k), "userId") = Undefined

\* C9: after a mutating operation whose write succeeded, the snapshot holds
\* the candidate map and the processed set that are in memory.
C9_SnapshotIsMemory ==
    lastWrite = "ok" =>
        /\ dataFile.exists
        /\ dataFile.valid
        /\ SameCandidates(loadData(dataFile, writeFailures).pa, pendingApprovals)
        /\ loadData(dataFile, writeFailures).pm = processedMessages

\* a write succeeded with candidates and processed messages in memory, after
\* an earlier write had failed
C9_Witness ==
    /\ lastWrite = "ok"
    /\ writeFailures > 0
    /\ Len(pendingApprovals) > 0
    /\ Len(processedMessages) > 0

\* the outcome of the finished click of task c is in memory and in the snapshot
Reflected(c) ==
    LET k == click[c].key
        mem == StatusOf(pendingApprovals, k)
        disk == StatusOf(loadData(dataFile, writeFailures).pa, k)
    IN CASE click[c].notice = "rejected" -> mem = Str("rejected") /\ disk = Str("rejected")
         [] click[c].notice = "failed" -> mem = Str("approved") /\ disk = Str("approved")
         [] click[c].notice = "created" -> mem = Undefined /\ disk = Undefined
         [] OTHER -> TRUE

\* two click tasks have finished one click each on two different candidates,
\* each registered once and clicked once
TwoClicksDone ==
    /\ \A c \in ClickTasks : click[c].pc = "notifying" /\ click[c].notice # "modal"
    /\ click[1].key # click[2].key
    /\ \A c \in ClickTasks : resolved[click[c].key] = 1
    /\ \A ts \in Ts : extractorCalls[ts] <= 1

\* C10: after two concurrent clicks on two different candidates, memory and
\* the snapshot hold the outcome of both.
C10_BothClicksTakeEffect ==
    TwoClicksDone => \A c \in ClickTasks : Reflected(c)

\* the two clicks overlapped: one was rejected while the createTask call of the
\* other was in flight
C10_Witness ==
    /\ TwoClicksDone
    /\ click[1].notice = "created"
    /\ click[2].notice = "rejected"
    /\ createCalls[click[1].key] = 1
    /\ StatusOf(pendingApprovals, click[2].key) = Str("rejected")

\* the states in which a candidate is resolved
Resolved == {Str("approved"), Str("rejected")}

\* C11: a candidate whose state is approved or rejected never has state
\* pending afterwards, whatever ingestion tasks and clicks interleave.
C11_NoBackToPending ==
    [][\A k \in Keys :
          StatusOf(pendingApprovals, k) \in Resolved =>
              StatusOf(pendingApprovals', k) # Str("pending")]_vars

\* C12: an approve or reject click on a candidate that is already approved or
\* rejected leaves the state of the candidate as it was.
C12_ReclickStep ==
    \A k \in Keys :
        ( /\ StatusOf(pendingApprovals, k) \in Resolved
          /\ \/ \E w \in WriteOutcomes : ApproveClick(1, k, w)
             \/ \E w \in WriteOutcomes : RejectClick(1, k, w) )
        => StatusOf(pendingApprovals', k) = StatusOf(pendingApprovals, k)
C12_ReclickNoOp == [][C12_ReclickStep]_vars

\* C13: a reject click on a pending candidate sets its state to rejected with
\* rejectedAt stamped, keeps it in the store and makes no createTask call,
\* neither in the step of the click nor when its confirmation has been sent.
C13_RejectStep ==
    \A c \in ClickTasks :
        /\ \A k \in Keys :
               (click[c].pc = "idle" /\ click'[c].pc = "notifying"
                   /\ StatusOf(pendingApprovals, k) = Str("pending")
                   /\ RejectClick(c, k, "ok"))
               => /\ MapHas(pendingApprovals', k)
                  /\ StatusOf(pendingApprovals', k) = Str("rejected")
                  /\ Prop(MapGet(pendingApprovals', k), "rejectedAt") = ToISOString(now)
                  /\ \A f \in CandidateProps \ {"status", "rejectedAt"} :
                         Prop(MapGet(pendingApprovals', k), f)
                             = Prop(MapGet(pendingApprovals, k), f)
                  /\ UNCHANGED <<createCalls, tasksCreated>>
                  /\ click'[c].pc = "notifying" /\ click'[c].notice = "rejected"
        /\ (click[c].pc = "notifying" /\ click[c].notice = "rejected" /\ NotifyReturn(c))
               => UNCHANGED <<createCalls, tasksCreated>>
C13_RejectPending == [][C13_RejectStep]_vars

\* a pending candidate was rejected by a click, and no createTask call was ever
\* made for it
C13_Witness ==
    \E c \in ClickTasks :
        /\ click[c].pc = "notifying"
        /\ click[c].notice = "rejected"
        /\ StatusOf(pendingApprovals, click[c].key) = Str("rejected")
        /\ resolved[click[c].key] = 1
        /\ createCalls[click[c].key] = 0

\* C16: a message is marked processed only when its pipeline has completed: a
\* task that registered a candidate and whose approval prompt was not posted
\* leaves the message out of the processed set.
C16_SendEndsStep ==
    \A i \in IngestTasks :
        (ingest[i].pc = "sending" /\ ingest'[i].pc = "idle"
            /\ promptsPosted'[ingest[i].ts] = promptsPosted[ingest[i].ts])
        => ~isProcessed(StoreNext, ingest[i].ts)
C16_MarkedOnlyWhenComplete == [][C16_SendEndsStep]_vars

\* C17: when the Extractor call for a message fails, the ingestion task ends
\* with no candidate registered for the message and with the message not in
\* the processed set.
C17_ExtractorFailsStep ==
    \A i \in IngestTasks :
        (ingest[i].pc = "analyzing"
            /\ extractorFailures'[ingest[i].ts] > extractorFailures[ingest[i].ts])
        => /\ ingest'[i].pc = "idle"
           /\ pendingApprovals' = pendingApprovals
           /\ ~isProcessed(StoreNext, ingest[i].ts)
C17_FailedExtractionRetryable == [][C17_ExtractorFailsStep]_vars

\* the calls to the Extractor, to the Task Sink and to the mutating methods of
\* the store that a route's log can hold
ProcessingCalls ==
    {"analyzeBatch", "approveFeedback", "rejectFeedback", "createTask", "assignTaskToPerson"}
\* every processing call of the log comes after the acknowledgment
AckFirst(log) ==
    \A n \in 1..Len(log) :
        log[n] \in ProcessingCalls => \E m \in 1..(n - 1) : log[m] = "ack"

\* C14: for every message notification and every button interaction, the
\* acknowledgment is sent before any call to the Extractor, to the Task Sink or
\* to a mutating method of the store is made for it: every such call in the log
\* of a request follows the acknowledgment, and a handler that is still running
\* belongs to a request that was acknowledged.
C14_AckBeforeProcessing ==
    /\ \A i \in IngestTasks :
           /\ AckFirst(eventsLog[i])
           /\ ingest[i].pc # "idle" => (eventsLog[i] # <<>> /\ eventsLog[i][1] = "ack")
    /\ \A c \in ClickTasks :
           /\ AckFirst(interactionsLog[c])
           /\ click[c].pc # "idle" =>
                  (interactionsLog[c] # <<>> /\ interactionsLog[c][1] = "ack")

\* an approve click was acknowledged and then approved its candidate and called
\* createTask, after a message notification was acknowledged and analysed
C14_Witness ==
    /\ interactionsLog[1] = <<"ack", "approveFeedback", "createTask">>
    /\ eventsLog[1] = <<"ack", "analyzeBatch">>
    /\ click[1].pc = "creating"

\* C15: once an event has been acknowledged, no later error causes a second
\* response to be attempted or a rejection that nothing handles.
C15_NoFailureAfterAck ==
    \A log \in {eventsLog[i] : i \in IngestTasks} \cup {interactionsLog[c] : c \in ClickTasks} :
        \A n \in 1..Len(log) :
            log[n] \in {"respond500", "unhandledRejection"} =>
                ~(\E m \in 1..(n - 1) : log[m] = "ack")

\* C18: the gateway never serves with an unresolved approval channel: when the
\* chat API or the backlog API cannot be reached at startup the process exits
\* instead of serving.
C18_NeverServesUnresolved ==
    proc = "serving" => approvalChannelId # Null

\* the message of the event came from the feedback channel, carries no bot
\* identifier and is not a threaded reply
FromFeedbackChannel(event) ==
    event.channel = FeedbackChannel /\ ~event.bot_id /\ ~event.thread_ts

\* C20: the ingestion path is started for a message only if it came from the
\* feedback channel, carries no bot identifier and is not a threaded reply; for
\* any other event there is no Extractor call, no registration and no
\* markAsProcessed.
C20_FilterStep ==
    \A i \in IngestTasks :
        (ingest[i].pc = "resolving" /\ ingest'[i].pc # "resolving"
            /\ ~FromFeedbackChannel(ingest[i].event))
        => /\ ingest'[i].pc = "idle"
           /\ UNCHANGED <<deliveries, extractorCalls, storeVars>>
C20_GatewayFilter == [][C20_FilterStep]_vars

\* the processNewMessages calls that are past the guard and have not returned
ActiveCycles == {j \in CycleTasks : cycle[j].pc # "idle"}

\* C19: a processing cycle never starts its work while another one is running,
\* so at most one cycle is active at any time; and the guard is released on
\* every exit of a cycle, so it is held only while a cycle is active and a later
\* trigger is not blocked.
C19_ReentrancyGuard ==
    /\ Cardinality(ActiveCycles) <= 1
    /\ isRunning <=> ActiveCycles # {}

\* a trigger was skipped by the guard, and a cycle is running that started after
\* an earlier cycle had released the guard
C19_Witness ==
    /\ cycle[1].pc = "creating"
    /\ isRunning
    /\ cycle[2] = CycleIdle("skipped")
    /\ Len(processedMessages) > 0

\* the message of a candidate key
TsOfKey(k) == CHOOSE ts \in Ts : MessageIdOf(ts) = k

\* C21: when the ingestion of a message got its permalink and posted its
\* prompt, the object passed to createTask on the approval of the message's
\* candidate carries that permalink as its messageLink.
C21_TaskLinksBack ==
    \A c \in ClickTasks :
        (click[c].pc = "creating" /\ click[c].key # StaleKey
            /\ promptsPosted[TsOfKey(click[c].key)] = 1
            /\ permalinks[TsOfKey(click[c].key)] # Null)
        => click[c].payload.messageLink = permalinks[TsOfKey(click[c].key)]

\* C22: the set of processed messages only grows: no call of a method of the
\* store (registering, approving, rejecting, removing, marking, the cleanup)
\* takes a message out of it, and neither does a restart that follows a
\* successful write, so isProcessed(m) stays true once markAsProcessed(m) has
\* returned.
C22_ProcessedStep ==
    (restarts' = restarts \/ lastWrite \in {"ok", "none"}) =>
        /\ \A ts \in Ts : isProcessed(Store, ts) => isProcessed(StoreNext, ts)
        /\ \A n \in 1..Len(processedMessages) : processedMessages'[n] = processedMessages[n]
C22_ProcessedAppendOnly == [][C22_ProcessedStep]_vars

\* the cleanup removed the only candidate while a message was marked processed
C22_Witness ==
    /\ cleared = 1
    /\ Len(pendingApprovals) = 0
    /\ Len(processedMessages) = 1
    /\ lastWrite = "ok"

\* the step in which the createTask call of click task c returns: with a page
\* when a task is counted as created, with an error otherwise
CreateFails(c) ==
    /\ click[c].pc = "creating"
    /\ click'[c].pc # "creating"
    /\ tasksCreated' = tasksCreated

\* C23: when the createTask call of an approve click fails, the message sent to
\* the response URL is the "approved but failed to create" message, which is
\* not the confirmation of a created task, and nothing else is sent for the
\* click: the task of the click ends when that message has been sent.
C23_FailureStep ==
    \A c \in ClickTasks :
        /\ CreateFails(c) =>
               /\ click'[c].pc = "notifying"
               /\ click'[c].message = FailedMessage
               /\ click'[c].message # CreatedMessage(click[c].payload,
                                                     PageId(click[c].key, tasksCreated[click[c].key] + 1))
        /\ (click[c].pc = "notifying" /\ click[c].notice = "failed" /\ click'[c] # click[c])
               => click'[c] = Idle
C23_FailureReported == [][C23_FailureStep]_vars

\* the createTask call of an approve click on a prompted candidate failed and
\* the failure message is being sent
C23_Witness ==
    \E c \in ClickTasks :
        /\ click[c].pc = "notifying"
        /\ click[c].notice = "failed"
        /\ click[c].message = FailedMessage
        /\ click[c].key # StaleKey
        /\ createCalls[click[c].key] = 1
        /\ tasksCreated[click[c].key] = 0
        /\ promptsPosted[TsOfKey(click[c].key)] = 1

\* the responses a route's log can hold, and those with status 200
Responses == {"ack", "challenge", "respond500"}
Responses200 == {"ack", "challenge"}
CountIn(log, entries) == Cardinality({n \in 1..Len(log) : log[n] \in entries})

\* C24: an interaction whose payload does not parse gets exactly one response,
\* which is not a 200; the store is not changed and no handler is started.
C24_ParseFailureStep ==
    \A c \in ClickTasks :
        InteractionsPost(c, [type |-> "unparsable"]) =>
            /\ CountIn(interactionsLog'[c], Responses) = 1
            /\ CountIn(interactionsLog'[c], Responses200) = 0
            /\ CountIn(interactionsLog'[c], ProcessingCalls \cup {"unhandledRejection"}) = 0
            /\ UNCHANGED <<storeVars, ingest, click, worldVars>>
C24_ParseFailure == [][C24_ParseFailureStep]_vars

\* an interaction that did not parse was answered with a 500 while a candidate
\* was in the store, and no handler runs
C24_Witness ==
    /\ interactionsLog[1] = <<"respond500">>
    /\ click[1].pc = "idle"
    /\ Len(pendingApprovals) = 1
    /\ createCalls = [k \in Keys |-> 0]

\* C25: a call of the cleanup returns the number of candidates it removed, 0
\* when none was older than the cutoff.
C25_SweepStep ==
    (\E w \in WriteOutcomes : DailyCleanup(w)) =>
        clearOldApprovalsResult(Store, SweepDays, now)
            = Num(Len(pendingApprovals) - Len(pendingApprovals'))
C25_SweepReturnsCount == [][C25_SweepStep]_vars

\* C26: when the ingestion of a message that was not processed before, has text
\* and is judged feedback ends with its prompt posted, the store holds exactly
\* one candidate under the key of the message, in state pending, exactly one
\* prompt has been posted for the message, and the message is processed.
C26_IngestionEndsStep ==
    \A i \in IngestTasks :
        (ingest[i].pc = "sending" /\ ingest'[i].pc = "idle"
            /\ promptsPosted'[ingest[i].ts] = promptsPosted[ingest[i].ts] + 1)
        => LET ts == ingest[i].ts
               k == MessageIdOf(ts)
           IN /\ Cardinality({n \in 1..Len(pendingApprovals') : pendingApprovals'[n][1] = k}) = 1
              /\ StatusOf(pendingApprovals', k) = Str("pending")
              /\ \A f \in {"title", "description", "priority", "type"} :
                     Prop(MapGet(pendingApprovals', k), f) = Prop(ingest[i].item, f)
              /\ promptsPosted'[ts] = 1
              /\ isProcessed(StoreNext, ts)
C26_SuccessfulIngestion == [][C26_IngestionEndsStep]_vars

\* the ingestion of a message delivered once has ended: one pending candidate,
\* one prompt, the permalink resolved, the message processed
C26_Witness ==
    \E ts \in Ts :
        /\ AllIdle
        /\ deliveries[ts] = 1
        /\ permalinks[ts] # Null
        /\ promptsPosted[ts] = 1
        /\ StatusOf(pendingApprovals, MessageIdOf(ts)) = Str("pending")
        /\ Len(pendingApprovals) = 1
        /\ isProcessed(Store, ts)
        /\ resolved = [k \in Keys |-> 0]

\* the properties of a candidate that go into the task
TaskProps == {"title", "description", "priority", "type"}

\* C27: an approve click on a pending candidate makes one createTask call, with
\* the title, description, priority and type of the stored candidate; when the
\* call returns a page the candidate is removed, no other createTask call is
\* made, and the confirmation sent to the response URL carries the assign
\* action with the id of the created page.
C27_ApproveStep ==
    \A c \in ClickTasks :
        /\ \A k \in Keys :
               (click[c].pc = "idle" /\ click'[c].pc = "creating"
                   /\ StatusOf(pendingApprovals, k) = Str("pending")
                   /\ \E w \in WriteOutcomes : ApproveClick(c, k, w))
               => /\ createCalls' = [createCalls EXCEPT ![k] = @ + 1]
                  /\ click'[c].pc = "creating"
                  /\ \A f \in TaskProps :
                         click'[c].payload[f] = Prop(MapGet(pendingApprovals, k), f)
                  /\ \A f \in TaskProps : click'[c].payload[f] # Undefined
        /\ CreateEnds(c, "created")
               => LET k == click[c].key
                  IN /\ ~MapHas(pendingApprovals', k)
                     /\ UNCHANGED createCalls
                     /\ tasksCreated' = [tasksCreated EXCEPT ![k] = @ + 1]
                     /\ click'[c].message.title = click[c].payload.title
                     /\ click'[c].message.value = PageId(k, tasksCreated'[k])
                     /\ click'[c].message.action_id = <<"assign_john_", PageId(k, tasksCreated'[k])>>
        /\ (click[c].pc = "notifying" /\ click[c].notice = "created" /\ click'[c] # click[c])
               => click'[c] = Idle /\ UNCHANGED createCalls
C27_ApproveCreates == [][C27_ApproveStep]_vars

\* an approve click on a prompted, pending candidate created its task with one
\* createTask call, the candidate is gone and the confirmation is being sent
C27_Witness ==
    \E c \in ClickTasks :
        /\ click[c].pc = "notifying"
        /\ click[c].notice = "created"
        /\ click[c].key # StaleKey
        /\ click[c].message.value = PageId(click[c].key, 1)
        /\ ~MapHas(pendingApprovals, click[c].key)
        /\ createCalls[click[c].key] = 1
        /\ resolved[click[c].key] = 1
        /\ promptsPosted[TsOfKey(click[c].key)] = 1

\* the judgments that say "not feedback" or give a confidence below the threshold
NotFeedbackReplies ==
    {r \in Judgments : ~r.isFeedback \/ (r.confidence # Undefined /\ r.confidence.num < 60)}

\* C28: when the Extractor judges a message "not feedback" or gives a confidence
\* below 60, the ingestion ends with no candidate registered and no prompt
\* posted, and with the message in the processed set; a later delivery of a
\* processed message ends without a call to the Extractor.
C28_NotFeedbackStep ==
    \A i \in IngestTasks :
        /\ (ingest[i].pc = "judged" /\ ingest[i].reply \in NotFeedbackReplies
               /\ ingest'[i] # ingest[i])
               => /\ ingest'[i].pc = "idle"
                  /\ pendingApprovals' = pendingApprovals
                  /\ UNCHANGED promptsPosted
                  /\ isProcessed(StoreNext, ingest[i].ts)
        /\ \A ts \in Ts, emptyText \in BOOLEAN :
               (isProcessed(Store, ts) /\ IngestBegin(i, ts, emptyText))
               => /\ ingest'[i].pc = "idle"
                  /\ UNCHANGED <<extractorCalls, storeVars, promptsPosted>>
C28_NotFeedbackProcessed == [][C28_NotFeedbackStep]_vars

\* a message was delivered twice and analysed once, without a failure of the
\* Extractor; it is processed and has no candidate and no prompt
C28_Witness ==
    \E ts \in Ts :
        /\ AllIdle
        /\ deliveries[ts] = 2
        /\ extractorCalls[ts] = 1
        /\ extractorFailures[ts] = 0
        /\ isProcessed(Store, ts)
        /\ ~MapHas(pendingApprovals, MessageIdOf(ts))
        /\ promptsPosted[ts] = 0

\* the reply is a judgment with isFeedback true and a confidence of at least 60
Positive(reply) ==
    /\ reply \in Judgments
    /\ reply.isFeedback = TRUE
    /\ reply.confidence \in {Num(n) : n \in 60..100}

\* C29: analyzeFeedback yields feedback exactly for a reply with isFeedback true
\* and a confidence of at least 60 (60 is accepted, 59 is not), and "not
\* feedback" (null, an empty array from analyzeBatch) for every other reply.
C29_Threshold ==
    \A i \in IngestTasks :
        ingest[i].pc = "judged" =>
            LET reply == ingest[i].reply
                feedbackArray == analyzeBatch(ingest[i].ts, ingest[i].result, "T1")
            IN /\ Positive(reply) <=> ingest[i].result = "feedback"
               /\ Positive(reply) <=> Len(feedbackArray) = 1
               /\ reply = [isFeedback |-> TRUE, confidence |-> Num(60)] => Len(feedbackArray) = 1
               /\ reply = [isFeedback |-> TRUE, confidence |-> Num(59)] => Len(feedbackArray) = 0

\* a reply with isFeedback true and a confidence of exactly 60 was judged feedback
C29_Witness ==
    /\ ingest[1].pc = "judged"
    /\ ingest[1].reply = [isFeedback |-> TRUE, confidence |-> Num(60)]
    /\ ingest[1].result = "feedback"

\* C30: for a reply that does not parse as a judgment, analyzeFeedback returns
\* "not feedback" to its caller instead of raising: analyzeBatch returns an
\* empty array, and the ingestion ends on its normal path with no candidate
\* registered and no prompt posted.
C30_MalformedStep ==
    \A i \in IngestTasks :
        (ingest[i].pc = "judged" /\ ingest[i].reply = Malformed)
        => /\ \A title \in Titles : analyzeBatch(ingest[i].ts, ingest[i].result, title) = <<>>
           /\ ingest'[i] # ingest[i]
                  => /\ ingest'[i].pc = "idle"
                     /\ pendingApprovals' = pendingApprovals
                     /\ UNCHANGED promptsPosted
                     /\ isProcessed(StoreNext, ingest[i].ts)
C30_FailsClosed == [][C30_MalformedStep]_vars

\* the ingestion of a message whose model call threw or whose reply did not
\* parse has ended: the Extractor was called once, no candidate was registered
\* for the message and no prompt posted, while another message has its candidate
C30_Witness ==
    \E ts \in Ts :
        /\ AllIdle
        /\ extractorCalls[ts] = 1
        /\ extractorFailures[ts] = 1
        /\ isProcessed(Store, ts)
        /\ ~MapHas(pendingApprovals, MessageIdOf(ts))
        /\ promptsPosted[ts] = 0
        /\ Len(pendingApprovals) = 1

\* a text with no character other than white space (the empty text included)
OnlyWhiteSpace(text) == \A n \in 1..Len(text) : text[n] \in WhiteSpace

\* C31: when the text of the event, the text (else title, else fallback) of each
\* attachment appended, is empty or white space only, processFeedbackMessage
\* ends before the Extractor is called: no candidate is registered, no prompt is
\* posted, and the message is not added to the processed set.  The text check
\* reads nothing of the state: it is stated for every event on the first
\* delivery, and what follows a text found empty is stated for every delivery.
C31_Skipped(i) ==
    /\ ingest'[i] = Idle
    /\ UNCHANGED <<extractorCalls, pendingApprovals, processedMessages, promptsPosted>>
C31_EmptyTextStep ==
    /\ events = 0 =>
          \A event \in TextEvents :
              (OnlyWhiteSpace(messageText(event)) /\ IngestEvent(1, event)) => C31_Skipped(1)
    /\ \A ts \in Ts : IngestBegin(1, ts, TRUE) => C31_Skipped(1)
C31_EmptyTextSkip == [][C31_EmptyTextStep]_vars
\* an event with no text was delivered: nothing was done for it
C31_Witness ==
    \E ts \in Ts :
        /\ AllIdle /\ events = 1 /\ deliveries[ts] = 1
        /\ extractorCalls[ts] = 0 /\ promptsPosted[ts] = 0
        /\ ~isProcessed(Store, ts) /\ ~MapHas(pendingApprovals, MessageIdOf(ts))

\* C32: when the permalink of the source message cannot be resolved,
\* processFeedbackMessage goes on: it sends the approval prompt for the candidate
\* it registered, and when that call returns the message is marked processed
C32_PermalinkStep ==
    /\ (ingest[1].pc = "permalink" /\ ingest'[1] # ingest[1]
           /\ permalinks'[ingest[1].ts] = Null)
        => /\ ingest'[1].pc = "sending"
           /\ ingest'[1].ts = ingest[1].ts
           /\ Prop(ingest'[1].item, "messageLink") = Undefined
           /\ StatusOf(pendingApprovals', MessageIdOf(ingest[1].ts)) = Str("pending")
    /\ \A posted \in BOOLEAN :
          (ingest[1].pc = "sending" /\ permalinks[ingest[1].ts] = Null
              /\ SendReturn(1, posted, "ok"))
          => /\ promptsPosted'[ingest[1].ts] = promptsPosted[ingest[1].ts] + (IF posted THEN 1 ELSE 0)
             /\ isProcessed(StoreNext, ingest[1].ts)
             /\ ingest'[1] = Idle
C32_PermalinkBestEffort == [][C32_PermalinkStep]_vars
\* a message was ingested, its permalink not resolved: prompt posted, processed
C32_Witness ==
    \E ts \in Ts :
        /\ AllIdle
        /\ permalinks[ts] = Null
        /\ promptsPosted[ts] = 1
        /\ StatusOf(pendingApprovals, MessageIdOf(ts)) = Str("pending")
        /\ isProcessed(Store, ts)

\* the outcomes of a write that fails
FailedWrites == WriteOutcomes \ {"ok"}
\* the step left the candidates and the processed messages of store S in memory
C33_InMemory(S) ==
    /\ pendingApprovals' = S.pa
    /\ processedMessages' = S.pm
    /\ getStats(StoreNext) = getStats(S)
    /\ getApprovedFeedbacks(StoreNext) = getApprovedFeedbacks(S)
\* a restart after the step recovers what a restart before it would have
C33_RecoversPrevious ==
    /\ loadData(dataFile', 0).pa = loadData(dataFile, 0).pa
    /\ loadData(dataFile', 0).pm = loadData(dataFile, 0).pm

\* C33: when the write of the snapshot fails, the mutating method returns all
\* the same, memory holds what it would hold had the write succeeded (candidates,
\* processed messages, approved list, stats), and a restart recovers the snapshot
\* that was persisted before
C33_FailedWriteStep ==
    \A w \in FailedWrites :
        /\ \A ts \in Ts, title \in Titles :
              StoreRegister(ts, title, w)
              => /\ C33_InMemory(addPendingApproval(Store, MessageIdOf(ts),
                                                    FeedbackItem(ts, title), now, "ok"))
                 /\ C33_RecoversPrevious
        /\ \A k \in Keys :
              /\ HandleApprovalAction(k, "approve", w)
                 => /\ C33_InMemory(approveFeedback(Store, k, NoProps, now, "ok"))
                    /\ C33_RecoversPrevious
              /\ HandleApprovalAction(k, "reject", w)
                 => /\ C33_InMemory(rejectFeedback(Store, k, now, "ok"))
                    /\ C33_RecoversPrevious
              /\ StoreRemove(k, w)
                 => /\ C33_InMemory(removePendingApproval(Store, k, now, "ok"))
                    /\ C33_RecoversPrevious
        /\ \A ts \in Ts :
              StoreMarkProcessed(ts, w)
              => /\ C33_InMemory(markAsProcessed(Store, ts, now, "ok"))
                 /\ C33_RecoversPrevious
C33_MemoryAuthoritative == [][C33_FailedWriteStep]_vars

\* the handler an action identifier stands for, by its prefix
C34_Selected(action_id) ==
    CASE action_id = "approve_" -> "handleApproval"
      [] action_id = "reject_" -> "handleRejection"
      [] action_id = "review_" -> "handleReview"
      [] action_id = "assign_john_" -> "handleAssignToJohn"
      [] action_id = MissingId -> "TypeError"
      [] OTHER -> "none"

\* C34: the actions of a block_actions payload are dispatched in the order of the
\* payload, each to the handler its action identifier selects by prefix (none
\* when no prefix matches); whatever became of the actions before (an error
\* thrown, a task not created, a page not assigned), the actions after them are
\* still to be handled, and the next one is dispatched as soon as the handler
\* before it has returned
C34_FailureIsolation ==
    LET b == blockActions[1]
        done == Len(b.handlers)
    IN /\ done <= Len(b.actions)
       /\ b.left = SubSeq(b.actions, done + 1, Len(b.actions))
       /\ \A n \in 1..done : b.handlers[n] = C34_Selected(b.actions[n].action_id)
       /\ (click[1].pc = "idle" /\ b.left # <<>>) => ENABLED DispatchAction(1)
\* a payload of two actions: the first threw, the second created the task
C34_Witness ==
    LET b == blockActions[1]
    IN /\ Len(b.actions) = 2 /\ b.left = <<>>
       /\ b.handlers = <<"TypeError", "handleApproval">>
       /\ click[1].pc = "idle"
       /\ tasksCreated[b.actions[2].value] = 1

\* C35: no createTask call is made for a key whose candidate is in state
\* rejected, in any order and overlap of the clicks
C35_CreateStep ==
    \A k \in Keys :
        createCalls'[k] > createCalls[k] => StatusOf(pendingApprovals, k) # Str("rejected")
C35_RejectedNeverTask == [][C35_CreateStep]_vars

\* C36: when createTask returns the page of an approved candidate in a polling
\* cycle, the candidate of that key is removed from the store and every other
\* candidate stays, one of the same title included
C36_CycleCreateStep ==
    \A j \in CycleTasks :
        (cycle[j].pc = "creating"
            /\ tasksCreated'[cycle[j].queue[1][1]] = tasksCreated[cycle[j].queue[1][1]] + 1)
        => LET key == cycle[j].queue[1][1]
           IN /\ ~MapHas(pendingApprovals', key)
              /\ \A k \in Keys \ {key} :
                     MapHas(pendingApprovals, k) => MapHas(pendingApprovals', k)
C36_RemovesCreated == [][C36_CycleCreateStep]_vars

\* C37: a message in the processed set whose candidate is in the store, pending,
\* has had an approval prompt posted for it
C37_NoOrphanPending ==
    \A ts \in Ts :
        (isProcessed(Store, ts) /\ StatusOf(pendingApprovals, MessageIdOf(ts)) = Str("pending"))
        => promptsPosted[ts] >= 1

\* the states a candidate may be in
C38_States == {Str("pending"), Str("approved"), Str("rejected")}

\* C38: every stored candidate has status pending, approved or rejected, whatever
\* updates approve was given; the pending, approved and rejected counts of
\* getStats() sum to the number of stored candidates, and its processed count
\* is the size of the processed set
C38_StateDomain ==
    /\ \A n \in 1..Len(pendingApprovals) :
          Prop(pendingApprovals[n][2], "status") \in C38_States
    /\ getStats(Store).pending + getStats(Store).approved + getStats(Store).rejected
          = Cardinality({pendingApprovals[n][1] : n \in 1..Len(pendingApprovals)})
    /\ getStats(Store).processed
          = Cardinality({processedMessages[n] : n \in 1..Len(processedMessages)})
\* two candidates in the store, one approved and one rejected, and a message
\* processed
C38_Witness ==
    /\ Len(pendingApprovals) = 2
    /\ getStats(Store).approved = 1
    /\ getStats(Store).rejected = 1
    /\ getStats(Store).processed >= 1

\* C39: when every upstream call returns in the end, with success or failure,
\* an ingestion that got past the text check and called the Extractor finishes,
\* and its message is then in the processed set
C39_IngestionTerminates ==
    \A ts \in Ts :
        (ingest[1].pc = "analyzing" /\ ingest[1].ts = ts)
            ~> (ingest[1].pc = "idle" /\ isProcessed(Store, ts))
\* an ingestion whose Extractor call failed has ended, the message processed
C39_Witness ==
    \E ts \in Ts :
        /\ AllIdle /\ deliveries[ts] = 1 /\ extractorCalls[ts] = 1
        /\ extractorFailures[ts] = 1
        /\ isProcessed(Store, ts)

====
